---- MODULE Spec2Model ----
(***************************************************************************)
(* canonlog: a Logger accumulates fields and errors of one unit of work    *)
(* behind a mutex and emits one record per Flush.  Goroutines call the     *)
(* Logger's methods concurrently; every method is modelled step by step    *)
(* (gate check, Lock, body, Unlock, and for Flush the attribute building   *)
(* and the sink call that run outside the lock).                           *)
(***************************************************************************)
EXTENDS Integers, Sequences, FiniteSets, TLC

\* ------------------------------------------------------------------ bounds
\* Total number of method calls the goroutines make in one behaviour.
MaxCalls == 3

\* --------------------------------------------------------- slog severities
LevelDebug == -4
LevelInfo == 0
LevelWarn == 4
LevelError == 8

\* Gate levels a Logger is constructed with: the four named levels and one
\* above Error (WithLevel accepts any slog.Level).
GateLevels == {LevelDebug, LevelInfo, LevelWarn, LevelError, LevelError + 4}

\* ------------------------------------------------------------------ inputs
Procs == {1, 2}
Loggers == {1}
Keys == {"a", "b"}

SingleOps == {"DebugAdd", "InfoAdd", "WarnAdd"}
ManyOps == {"DebugAddMany", "InfoAddMany", "WarnAddMany"}
FieldOps == SingleOps \cup ManyOps

\* The key sets of the maps handed to the Many forms: empty, or every key.
ManyKeySets == {{}, Keys}

\* An error value: nil, or an error whose Error() method returns msg.
NilErr == [isNil |-> TRUE, msg |-> 0, reenters |-> FALSE]
MkErr(m) == [isNil |-> FALSE, msg |-> m, reenters |-> FALSE]

\* An error of a type the caller wrote, whose Error() method calls InfoAdd
\* on the Logger the error is added to before it returns msg.
ReentrantErr(m) == [isNil |-> FALSE, msg |-> m, reenters |-> TRUE]

\* No call in progress.
NoCall == [id |-> 0, op |-> "none", l |-> 0, keys |-> {}, err |-> NilErr]

EmptyMap == [k \in {} |-> 0]

\* attrPool before any Flush: New has made no buffer yet.
NoBuffers == [made |-> <<>>, free |-> {}]

VARIABLES
    gateLevel,    \* Logger.gateLevel, per Logger
    level,        \* Logger.level (output level), per Logger
    fields,       \* Logger.fields, per Logger: a map key -> value
    errors,       \* Logger.errors, per Logger: a sequence of messages
    mu,           \* Logger.mu, per Logger: 0 (unlocked) or the holder
    pc,           \* per goroutine: its position in the method it runs
    cur,          \* per goroutine: the call it runs (receiver, arguments)
    todo,         \* per goroutine: keys of the range loop still to store
    outputLevel,  \* Flush local
    fieldsCopy,   \* Flush local
    errorsCopy,   \* Flush local
    attrs,        \* Flush local: the attribute slice handed to the sink
    sink,         \* the records slog.LogAttrs received, in order
    calls,        \* number of calls made so far
    nextId,       \* number of accepted calls so far (the id of the last one)
    lastRej,      \* the most recent call that was gated out, and the
                  \* number of accepted calls invoked before it
    hist,         \* per accepted call id: what was called, which calls had
                  \* returned when it was invoked, has it returned
    order,        \* per Logger: call ids in the order they took the lock
    logLevel,     \* the package variable logLevel (process-wide level)
    ctxs,         \* the contexts derived so far with context.WithValue
    got,          \* what the most recent GetLogger / TryGetLogger gave
    rls,          \* the RequestLoggers created so far (legacy API)
    http,         \* the HTTP request being served by the middleware
    attrPool,     \* the package variable attrPool: the buffers its New
                  \* function made, and which of them are in the pool
    attrsPtr      \* Flush local: the buffer taken from attrPool (0: none)

vars == <<gateLevel, level, fields, errors, mu, pc, cur, todo, outputLevel,
          fieldsCopy, errorsCopy, attrs, sink, calls, nextId, lastRej, hist,
          order, logLevel, ctxs, got, rls, http, attrPool, attrsPtr>>

shared == <<gateLevel, level, fields, errors, mu>>
locals == <<todo, outputLevel, fieldsCopy, errorsCopy, attrs>>
ghost == <<calls, nextId, lastRej, hist, order>>
web == <<rls, http>>
pooled == <<attrPool, attrsPtr>>
carrier == <<logLevel, ctxs, got, web, pooled>>

\* ------------------------------------------------------------ pure helpers
\* Variants of the code below, each changed the way a slip would change it.
PutFresh(m, k, v) == [x \in {k} |-> v]
PutIfAbsent(m, k, v) ==
    IF k \in DOMAIN m THEN m
    ELSE [x \in (DOMAIN m) \cup {k} |-> IF x = k THEN v ELSE m[x]]
CopyNothing(m) == EmptyMap
ClearNothing(m) == m
GateOfDebugAsInfo(op) ==
    CASE op \in {"DebugAdd", "DebugAddMany"} -> LevelInfo
      [] op \in {"InfoAdd", "InfoAddMany"} -> LevelInfo
      [] op \in {"WarnAdd", "WarnAddMany"} -> LevelWarn
      [] op = "ErrorAdd" -> LevelError
ErrorAcceptedNoNilCheck(l, err) == gateLevel[l] <= LevelError
MutexAlwaysFree(l) == TRUE
ResetLevelKept(l) == level[l]
ResetLevelGlobal(l) == logLevel
MutexShared(l) == \A m \in DOMAIN mu : mu[m] = 0
WithLevelGateOnly(g) == [gateLevel |-> g, level |-> LevelInfo]
EscalatedAlways(lv, op) ==
    CASE op \in {"WarnAdd", "WarnAddMany"} -> LevelWarn
      [] op = "ErrorAdd" -> LevelError
BuildAttrsSingleError(fc, ec, ord) ==
    [i \in 1..Len(ord) |-> [key |-> ord[i], val |-> fc[ord[i]]]]
      \o (IF Len(ec) > 1 THEN <<[key |-> "errors", val |-> ec]>>
          ELSE IF Len(ec) = 1 THEN <<[key |-> "error", val |-> ec[1]]>>
          ELSE <<>>)

\* m[k] = v on a Go map.
Put(m, k, v) == [x \in (DOMAIN m) \cup {k} |-> IF x = k THEN v ELSE m[x]]

\* The copy loop of Flush: a new map with every entry of m.
CopyMap(m) == [k \in DOMAIN m |-> m[k]]

\* clear(m).
ClearMap(m) == EmptyMap

\* err.Error().
ErrorMsg(err) == err.msg

\* The level constant each method compares the gate with.
GateOf(op) ==
    CASE op \in {"DebugAdd", "DebugAddMany"} -> LevelDebug
      [] op \in {"InfoAdd", "InfoAddMany"} -> LevelInfo
      [] op \in {"WarnAdd", "WarnAddMany"} -> LevelWarn
      [] op = "ErrorAdd" -> LevelError

\* The guard of a single add: l.gateLevel <= slog.LevelX.
AddAccepted(l, op) == gateLevel[l] <= GateOf(op)

\* Variant: the Many guard without the length test.
ManyAcceptedNoLenCheck(l, op, ks) == gateLevel[l] <= GateOf(op)

\* The guard of a Many add: len(fields) > 0 && l.gateLevel <= slog.LevelX.
ManyAccepted(l, op, ks) == Cardinality(ks) > 0 /\ gateLevel[l] <= GateOf(op)

\* The guard of ErrorAdd: err != nil && l.gateLevel <= slog.LevelError.
ErrorAccepted(l, err) == ~err.isNil /\ gateLevel[l] <= LevelError

\* The level a method escalates to after storing; none for Debug and Info.
Escalates(op) == op \in {"WarnAdd", "WarnAddMany", "ErrorAdd"}

\* if l.level < slog.LevelX { l.level = slog.LevelX }
Escalated(lv, op) == IF lv < GateOf(op) THEN GateOf(op) ELSE lv

\* sync.Mutex: Lock blocks until the mutex is free.
MutexFree(l) == mu[l] = 0

\* All orderings of a finite set, as sequences without repetition (the
\* iteration order of a Go map is unspecified).
Orderings(S) ==
    {s \in [1..Cardinality(S) -> S] : \A i, j \in DOMAIN s : i # j => s[i] # s[j]}

\* The attribute list Flush builds: one attribute per copied field, in map
\* iteration order, then the "errors" array when it is not empty.
BuildAttrs(fc, ec, ord) ==
    [i \in 1..Len(ord) |-> [key |-> ord[i], val |-> fc[ord[i]]]]
      \o (IF Len(ec) > 0 THEN <<[key |-> "errors", val |-> ec]>> ELSE <<>>)

\* The level Flush resets the output level to: l.level = l.gateLevel.
ResetLevel(l) == gateLevel[l]

\* WithLevel(g), applied by New to the Logger it builds: l.gateLevel = g and
\* l.level = g.
WithLevel(g) == [gateLevel |-> g, level |-> g]

\* ------------------------------------------------------------ bookkeeping
\* Accepted calls are numbered 1, 2, ... in the order they are invoked; the
\* value an add stores and the message of an error carry that number.
Returned == {c \in DOMAIN hist : hist[c].ret}

NoLookup == [fn |-> "none", ctx |-> 0, l |-> 0, ok |-> FALSE, panic |-> FALSE]

NoRej == [op |-> "none", empty |-> FALSE, nil |-> FALSE, at |-> 0]

\* No request is being served.
NoResponseWriter == [status |-> 0, bytesWritten |-> 0, wroteHeader |-> FALSE]
NoHttp ==
    [pc |-> "none", ctx |-> 0, requestID |-> "", invoked |-> <<>>, respHeader |-> "unset", ww |-> NoResponseWriter,
     under |-> [codes |-> <<>>, bytes |-> 0], wlog |-> <<>>,
     panicked |-> FALSE, payload |-> <<>>, flushId |-> 0]

\* The gate check of a method: a call that is gated out returns at once,
\* touching nothing; an accepted one goes on to Lock.
Invoke(p, l, op, ks, err, acc) ==
    /\ pc[p] = "idle"
    /\ IF acc
         THEN /\ nextId' = nextId + 1
              /\ pc' = [pc EXCEPT ![p] = "lock"]
              /\ cur' = [cur EXCEPT ![p] =
                           [id |-> nextId + 1, op |-> op, l |-> l,
                            keys |-> ks, err |-> err]]
              /\ hist' = hist @@ ((nextId + 1) :>
                           [op |-> op, l |-> l, keys |-> ks, err |-> err,
                            ret |-> FALSE,
                            before |-> Returned])
              /\ UNCHANGED lastRej
         ELSE /\ lastRej' = [op |-> op, empty |-> (op \in ManyOps /\ ks = {}),
                              nil |-> (op = "ErrorAdd" /\ err.isNil),
                              at |-> nextId]
              /\ UNCHANGED <<pc, cur, nextId, hist>>
    /\ UNCHANGED <<shared, locals, sink, order>>

\* A method call by the calling program: it counts as one of the calls
\* of the behaviour.  Goroutines are interchangeable, so the first call of
\* a behaviour is made by goroutine 1.
Begin(p, l, op, ks, err, acc) ==
    /\ calls < MaxCalls
    /\ (calls = 0 => p = 1)
    /\ calls' = calls + 1
    /\ Invoke(p, l, op, ks, err, acc)
    /\ UNCHANGED carrier

\* The call of goroutine p returns.
Return(p) ==
    /\ pc' = [pc EXCEPT ![p] = "idle"]
    /\ cur' = [cur EXCEPT ![p] = NoCall]
    /\ hist' = [hist EXCEPT ![cur[p].id].ret = TRUE]

\* ----------------------------------------------------------------- actions
Init ==
    /\ \E g \in GateLevels :
         /\ gateLevel = [l \in Loggers |-> WithLevel(g).gateLevel]
         /\ level = [l \in Loggers |-> WithLevel(g).level]
    /\ fields = [l \in Loggers |-> EmptyMap]
    /\ errors = [l \in Loggers |-> <<>>]
    /\ mu = [l \in Loggers |-> 0]
    /\ pc = [p \in Procs |-> "idle"]
    /\ cur = [p \in Procs |-> NoCall]
    /\ todo = [p \in Procs |-> {}]
    /\ outputLevel = [p \in Procs |-> 0]
    /\ fieldsCopy = [p \in Procs |-> EmptyMap]
    /\ errorsCopy = [p \in Procs |-> <<>>]
    /\ attrs = [p \in Procs |-> <<>>]
    /\ attrPool = NoBuffers
    /\ attrsPtr = [p \in Procs |-> 0]
    /\ sink = <<>>
    /\ calls = 0
    /\ nextId = 0
    /\ lastRej = NoRej
    /\ hist = <<>>
    /\ order = [l \in Loggers |-> <<>>]
    /\ logLevel = LevelInfo
    /\ ctxs = <<>>
    /\ got = NoLookup
    /\ rls = <<>>
    /\ http = NoHttp

\* l.DebugAdd / l.InfoAdd / l.WarnAdd (key, value): the gate check.
CallAdd(p, l, op, k) == Begin(p, l, op, {k}, NilErr, AddAccepted(l, op))

\* l.DebugAddMany / l.InfoAddMany / l.WarnAddMany (fields): the gate check.
CallAddMany(p, l, op, ks) == Begin(p, l, op, ks, NilErr, ManyAccepted(l, op, ks))

\* l.ErrorAdd(err): the gate check.
CallErrorAdd(p, l, err) == Begin(p, l, "ErrorAdd", {}, err, ErrorAccepted(l, err))

\* l.Flush(ctx): no gate.
CallFlush(p, l) == Begin(p, l, "Flush", {}, NilErr, TRUE)

\* l.mu.Lock()
Lock(p) ==
    /\ pc[p] = "lock"
    /\ MutexFree(cur[p].l)
    /\ mu' = [mu EXCEPT ![cur[p].l] = p]
    /\ order' = [order EXCEPT ![cur[p].l] = Append(@, cur[p].id)]
    /\ pc' = [pc EXCEPT ![p] =
                CASE cur[p].op = "Flush" -> "snap"
                  [] cur[p].op = "ErrorAdd" -> "append"
                  [] OTHER -> "store"]
    /\ todo' = [todo EXCEPT ![p] = cur[p].keys]
    /\ UNCHANGED <<gateLevel, level, fields, errors, cur, outputLevel,
                   fieldsCopy, errorsCopy, attrs, sink, calls, nextId,
                   lastRej, hist, carrier>>

\* l.mu.Unlock(); return l  -- the end of every accepted add.
Unlock(p) ==
    /\ mu' = [mu EXCEPT ![cur[p].l] = 0]
    /\ Return(p)

\* l.fields[key] = value, once for a single add and once per key of the
\* range loop of a Many add.  The value stored is tagged with the call's id.
\* DebugAdd and InfoAdd unlock and return after the last store.
Store(p) ==
    /\ pc[p] = "store"
    /\ \E k \in todo[p] :
         /\ fields' = [fields EXCEPT ![cur[p].l] = Put(@, k, cur[p].id)]
         /\ todo' = [todo EXCEPT ![p] = @ \ {k}]
         /\ IF todo[p] # {k}
              THEN UNCHANGED <<pc, cur, hist, mu>>
              ELSE IF Escalates(cur[p].op)
                     THEN /\ pc' = [pc EXCEPT ![p] = "esc"]
                          /\ UNCHANGED <<cur, hist, mu>>
                     ELSE Unlock(p)
    /\ UNCHANGED <<gateLevel, level, errors, outputLevel, fieldsCopy,
                   errorsCopy, attrs, sink, calls, nextId, lastRej, order,
                   carrier>>

\* l.errors = append(l.errors, err.Error()), when err.Error() returns
\* without waiting: it makes no call on the Logger, or the call it makes
\* is gated out.
AppendError(p) ==
    /\ pc[p] = "append"
    /\ ~(cur[p].err.reenters /\ AddAccepted(cur[p].l, "InfoAdd"))
    /\ errors' = [errors EXCEPT ![cur[p].l] = Append(@, ErrorMsg(cur[p].err))]
    /\ pc' = [pc EXCEPT ![p] = "esc"]
    /\ UNCHANGED <<gateLevel, level, fields, mu, cur, locals, sink, ghost,
                   carrier>>

\* err.Error() of an error whose Error method calls l.InfoAdd(k, v) on the
\* same Logger: the nested InfoAdd passes the gate and goes on to
\* l.mu.Lock(), on the goroutine that is inside ErrorAdd's critical
\* section.  The frame of ErrorAdd stays below the nested call.
ErrorMethodCalls(p, k) ==
    /\ pc[p] = "append"
    /\ cur[p].err.reenters
    /\ AddAccepted(cur[p].l, "InfoAdd")
    /\ nextId' = nextId + 1
    /\ pc' = [pc EXCEPT ![p] = "lock"]
    /\ cur' = [cur EXCEPT ![p] =
                 [id |-> nextId + 1, op |-> "InfoAdd", l |-> cur[p].l,
                  keys |-> {k}, err |-> NilErr]]
    /\ hist' = hist @@ ((nextId + 1) :>
                 [op |-> "InfoAdd", l |-> cur[p].l, keys |-> {k},
                  err |-> NilErr, ret |-> FALSE, before |-> Returned])
    /\ UNCHANGED <<shared, locals, sink, calls, lastRej, order, carrier>>

\* if l.level < slog.LevelWarn { l.level = slog.LevelWarn } (ErrorAdd:
\* LevelError), then l.mu.Unlock() and return.
Escalate(p) ==
    /\ pc[p] = "esc"
    /\ level' = [level EXCEPT ![cur[p].l] = Escalated(@, cur[p].op)]
    /\ Unlock(p)
    /\ UNCHANGED <<gateLevel, fields, errors, locals, sink, calls, nextId,
                   lastRej, order, carrier>>

\* Flush: outputLevel := l.level; fieldsCopy and errorsCopy are filled.
Snapshot(p) ==
    /\ pc[p] = "snap"
    /\ outputLevel' = [outputLevel EXCEPT ![p] = level[cur[p].l]]
    /\ fieldsCopy' = [fieldsCopy EXCEPT ![p] = CopyMap(fields[cur[p].l])]
    /\ errorsCopy' = [errorsCopy EXCEPT ![p] = errors[cur[p].l]]
    /\ pc' = [pc EXCEPT ![p] = "reset"]
    /\ UNCHANGED <<shared, cur, todo, attrs, sink, ghost, carrier>>

\* Flush: clear(l.fields); l.errors = make(...); l.level = l.gateLevel;
\* l.mu.Unlock().
Reset(p) ==
    /\ pc[p] = "reset"
    /\ fields' = [fields EXCEPT ![cur[p].l] = ClearMap(@)]
    /\ errors' = [errors EXCEPT ![cur[p].l] = <<>>]
    /\ level' = [level EXCEPT ![cur[p].l] = ResetLevel(cur[p].l)]
    /\ mu' = [mu EXCEPT ![cur[p].l] = 0]
    /\ pc' = [pc EXCEPT ![p] = "build"]
    /\ UNCHANGED <<gateLevel, cur, locals, sink, ghost, carrier>>

\* Flush, outside the lock: the attribute slice is built from the copies.
Build(p) ==
    /\ pc[p] = "build"
    /\ \E ord \in Orderings(DOMAIN fieldsCopy[p]) :
         attrs' = [attrs EXCEPT ![p] = BuildAttrs(fieldsCopy[p], errorsCopy[p], ord)]
    /\ pc' = [pc EXCEPT ![p] = "emit"]
    /\ UNCHANGED <<shared, cur, todo, outputLevel, fieldsCopy, errorsCopy,
                   sink, ghost, carrier>>

\* A variant of Emit whose record overtakes the records already handed over.
EmitFirst(p) ==
    /\ pc[p] = "emit"
    /\ sink' = <<[id |-> cur[p].id, l |-> cur[p].l,
                  level |-> outputLevel[p], msg |-> "",
                  attrs |-> attrs[p], at |-> nextId]>> \o sink
    /\ Return(p)
    /\ todo' = [todo EXCEPT ![p] = {}]
    /\ outputLevel' = [outputLevel EXCEPT ![p] = 0]
    /\ fieldsCopy' = [fieldsCopy EXCEPT ![p] = EmptyMap]
    /\ errorsCopy' = [errorsCopy EXCEPT ![p] = <<>>]
    /\ attrs' = [attrs EXCEPT ![p] = <<>>]
    /\ UNCHANGED <<shared, calls, nextId, lastRej, order, carrier>>

\* A variant of Emit that hands nothing to the sink when there is no
\* attribute.
EmitSkipsEmpty(p) ==
    /\ pc[p] = "emit"
    /\ sink' = IF attrs[p] = <<>> THEN sink
               ELSE Append(sink, [id |-> cur[p].id, l |-> cur[p].l,
                                  level |-> outputLevel[p], msg |-> "",
                                  attrs |-> attrs[p], at |-> nextId])
    /\ Return(p)
    /\ todo' = [todo EXCEPT ![p] = {}]
    /\ outputLevel' = [outputLevel EXCEPT ![p] = 0]
    /\ fieldsCopy' = [fieldsCopy EXCEPT ![p] = EmptyMap]
    /\ errorsCopy' = [errorsCopy EXCEPT ![p] = <<>>]
    /\ attrs' = [attrs EXCEPT ![p] = <<>>]
    /\ UNCHANGED <<shared, calls, nextId, lastRej, order, carrier>>

\* Flush: slog.LogAttrs(ctx, outputLevel, "", attrs...); return.
Emit(p) ==
    /\ pc[p] = "emit"
    /\ sink' = Append(sink, [id |-> cur[p].id, l |-> cur[p].l,
                             level |-> outputLevel[p], msg |-> "",
                             attrs |-> attrs[p], at |-> nextId])
    /\ Return(p)
    /\ todo' = [todo EXCEPT ![p] = {}]
    /\ outputLevel' = [outputLevel EXCEPT ![p] = 0]
    /\ fieldsCopy' = [fieldsCopy EXCEPT ![p] = EmptyMap]
    /\ errorsCopy' = [errorsCopy EXCEPT ![p] = <<>>]
    /\ attrs' = [attrs EXCEPT ![p] = <<>>]
    /\ UNCHANGED <<shared, calls, nextId, lastRej, order, carrier>>

Next ==
    \E p \in Procs :
        \/ \E l \in Loggers, op \in SingleOps, k \in Keys : CallAdd(p, l, op, k)
        \/ \E l \in Loggers, op \in ManyOps, ks \in ManyKeySets :
               CallAddMany(p, l, op, ks)
        \/ \E l \in Loggers, err \in {NilErr, MkErr(nextId + 1)} :
               CallErrorAdd(p, l, err)
        \/ \E l \in Loggers : CallFlush(p, l)
        \/ Lock(p)
        \/ Store(p)
        \/ AppendError(p)
        \/ Escalate(p)
        \/ Snapshot(p)
        \/ Reset(p)
        \/ Build(p)
        \/ Emit(p)

Spec == Init /\ [][Next]_vars

\* ------------------------------------------------- vocabulary of the claims
\* The severity of a method, as the claims name it.
Severity(op) ==
    CASE op \in {"DebugAdd", "DebugAddMany"} -> -4
      [] op \in {"InfoAdd", "InfoAddMany"} -> 0
      [] op \in {"WarnAdd", "WarnAddMany"} -> 4
      [] op = "ErrorAdd" -> 8
      [] OTHER -> -100

MaxOf(S) == CHOOSE x \in S : \A y \in S : y <= x

IsFlush(c) == hist[c].op = "Flush"
IsFieldAdd(c) == hist[c].op \in FieldOps
IsErrorAdd(c) == hist[c].op = "ErrorAdd"

\* Two calls overlap in time: neither had returned when the other began.
Overlap(c, d) == c # d /\ c \notin hist[d].before /\ d \notin hist[c].before

\* The position of call c in the lock order of its Logger (0: not yet).
Pos(c) ==
    LET o == order[hist[c].l]
    IN IF \E i \in DOMAIN o : o[i] = c
         THEN CHOOSE i \in DOMAIN o : o[i] = c
         ELSE 0

\* The adds of the accumulation cycle that Flush f snapshots: those that
\* took the lock before f and after every earlier Flush.
CycleOf(f) ==
    LET o == order[hist[f].l]
    IN {o[i] : i \in {j \in 1..(Pos(f) - 1) :
                        \A m \in j..(Pos(f) - 1) : ~IsFlush(o[m])}}

\* The add of f's cycle that stored key k last.
Writers(f, k) == {c \in CycleOf(f) : IsFieldAdd(c) /\ k \in hist[c].keys}
LastWriter(f, k) == CHOOSE c \in Writers(f, k) : \A d \in Writers(f, k) : Pos(d) <= Pos(c)

\* Reading a record the sink received.
Records == {sink[i] : i \in DOMAIN sink}
KeyAttrs(r, k) == {i \in DOMAIN r.attrs : r.attrs[i].key = k}
HasKey(r, k) == KeyAttrs(r, k) # {}
ValOf(r, k) == r.attrs[CHOOSE i \in KeyAttrs(r, k) : TRUE].val
FieldVals(r) == {r.attrs[i].val : i \in {j \in DOMAIN r.attrs : r.attrs[j].key \in Keys}}
ErrorsOf(r) == IF HasKey(r, "errors") THEN ValOf(r, "errors") ELSE <<>>
ErrorVals(r) == {ErrorsOf(r)[i] : i \in DOMAIN ErrorsOf(r)}
RangeOf(f) == {f[x] : x \in DOMAIN f}

\* The goroutines running a Flush that holds a snapshot not yet emitted.
Holding == {p \in Procs : pc[p] \in {"reset", "build", "emit"}}

\* -------------------------------------------------------------------- C1
\* C1: a field added by a call whose severity is strictly below the gate of
\* its Logger is never stored in the Logger, never copied by a Flush and
\* never part of an emitted record: every stored or emitted field value was
\* put there by a call whose severity is at least the gate.
C1_GateMonotonicity ==
    /\ \A l \in Loggers : \A v \in RangeOf(fields[l]) :
           Severity(hist[v].op) >= gateLevel[l]
    /\ \A p \in Holding : \A v \in RangeOf(fieldsCopy[p]) :
           Severity(hist[v].op) >= gateLevel[cur[p].l]
    /\ \A r \in Records : \A v \in FieldVals(r) :
           Severity(hist[v].op) >= gateLevel[r.l]

\* A field add was gated out by its level, another add was accepted, and a
\* record holding the accepted field has been emitted.
C1_Witness ==
    /\ lastRej.op \in FieldOps
    /\ ~lastRej.empty
    /\ \E r \in Records : FieldVals(r) # {}

\* -------------------------------------------------------------------- C2
\* C2: the level of every emitted record equals the maximum severity among
\* the accepted adds of its accumulation cycle, and is never below the gate.
C2_LevelIsMaxAccepted ==
    \A r \in Records :
        /\ r.level >= gateLevel[r.l]
        /\ CycleOf(r.id) # {} =>
               r.level = MaxOf({Severity(hist[c].op) : c \in CycleOf(r.id)})

\* -------------------------------------------------------------------- C3
\* Add c shows in record r of Flush f: each of its keys is in r with the
\* value stored last in f's cycle, its error message is in r's errors.
ShowsIn(c, r) ==
    /\ IsFieldAdd(c) =>
         \A k \in hist[c].keys : HasKey(r, k) /\ ValOf(r, k) = LastWriter(r.id, k)
    /\ IsErrorAdd(c) => ErrorMsg(hist[c].err) \in ErrorVals(r)

\* No add invoked after the Flush of r returned is in r (r.at is the number
\* of accepted calls invoked when the Flush handed r to the sink).
NothingLater(r) == \A v \in FieldVals(r) \cup ErrorVals(r) : v <= r.at

\* C3 as stated: for any Flush F, every accepted add that returned before
\* F was invoked appears in F's record, and no add invoked after F returned
\* does.
C3_SnapshotIsolationAsStated ==
    \A r \in Records :
        /\ \A c \in hist[r.id].before :
               (hist[c].l = r.l /\ ~IsFlush(c)) => ShowsIn(c, r)
        /\ NothingLater(r)

\* C3 amended: for any Flush F, every accepted add that returned before F
\* was invoked and was not already taken by the snapshot of an earlier Flush
\* appears in F's record (with the last value per key), and no add invoked
\* after F returned does.
C3_SnapshotIsolation ==
    \A r \in Records :
        /\ \A c \in hist[r.id].before :
               (hist[c].l = r.l /\ ~IsFlush(c) /\ c \in CycleOf(r.id))
                   => ShowsIn(c, r)
        /\ NothingLater(r)

\* A Flush emitted a record after an add had returned, and a further add
\* was invoked after that Flush returned.
C3_Witness ==
    \E r \in Records :
        /\ \E c \in hist[r.id].before : ~IsFlush(c) /\ c \in CycleOf(r.id)
        /\ \E d \in DOMAIN hist : ~IsFlush(d) /\ r.id \in hist[d].before

\* -------------------------------------------------------------------- C4
\* A Flush that has taken the lock and has not yet reset the Logger.
Resetting(f) == \E p \in Procs : cur[p].id = f /\ pc[p] \in {"snap", "reset"}

\* The last call that took the lock of l is a Flush that has reset it.
FreshlyReset(l) ==
    /\ order[l] # <<>>
    /\ IsFlush(order[l][Len(order[l])])
    /\ ~Resetting(order[l][Len(order[l])])

\* The level a cycle made of the adds in S ends at.
CycleLevel(l, S) ==
    LET esc == {Severity(hist[c].op) : c \in {d \in S : Escalates(hist[d].op)}}
    IN MaxOf(esc \cup {gateLevel[l]})

\* The error messages of the adds in S, in lock order.
CycleErrors(l, S) ==
    LET idx == {i \in DOMAIN order[l] : order[l][i] \in S /\ IsErrorAdd(order[l][i])}
        nth[n \in 0..Cardinality(idx)] ==
            IF n = 0 THEN 0
            ELSE CHOOSE i \in idx : i > nth[n - 1] /\
                     \A j \in idx : j > nth[n - 1] => i <= j
    IN [n \in 1..Cardinality(idx) |-> ErrorMsg(hist[order[l][nth[n]]].err)]

\* C4 as stated: when Flush returns, the fields and errors of its Logger
\* are empty and the output level equals the gate level.
C4_ResetAtReturnAsStated ==
    [][\A p \in Procs :
          (pc[p] = "emit" /\ pc'[p] = "idle") =>
              /\ fields'[cur[p].l] = EmptyMap
              /\ errors'[cur[p].l] = <<>>
              /\ level'[cur[p].l] = gateLevel[cur[p].l]]_vars

\* C4 amended: when Flush releases the lock, and until the next accepted add
\* takes it, the fields and errors are empty and the output level equals the
\* gate level; every record holds exactly the fields and errors of the adds
\* that took the lock in its own cycle, none of an earlier cycle, and its
\* level depends only on those adds and the gate.
C4_ResetOnFlush ==
    /\ \A l \in Loggers :
           FreshlyReset(l) =>
               fields[l] = EmptyMap /\ errors[l] = <<>> /\ level[l] = gateLevel[l]
    /\ \A r \in Records :
           /\ FieldVals(r) \subseteq CycleOf(r.id)
           /\ \A k \in Keys : HasKey(r, k) <=> Writers(r.id, k) # {}
           /\ ErrorsOf(r) = CycleErrors(r.l, CycleOf(r.id))
           /\ r.level = CycleLevel(r.l, CycleOf(r.id))

\* Two records of one Logger: the first holds fields above the gate level,
\* the second, emitted after the reset, holds nothing and is at gate level.
C4_Witness ==
    /\ Len(sink) = 2
    /\ sink[1].attrs # <<>> /\ sink[1].level > gateLevel[sink[1].l]
    /\ sink[2].l = sink[1].l
    /\ sink[2].attrs = <<>> /\ sink[2].level = gateLevel[sink[2].l]

\* -------------------------------------------------------------------- C5
\* The adds of the cycle of Flush f write pairwise distinct keys.
DistinctKeys(f) ==
    \A c, d \in CycleOf(f) : c # d => hist[c].keys \cap hist[d].keys = {}

\* C5: when the accepted adds of a cycle have distinct keys, the Flush that
\* follows them emits, for each add that had returned when it was invoked,
\* every key with the value that add stored and every error message.
C5_NoLostUpdate ==
    \A r \in Records :
        DistinctKeys(r.id) =>
            \A c \in hist[r.id].before \cap CycleOf(r.id) :
                /\ IsFieldAdd(c) =>
                     \A k \in hist[c].keys : HasKey(r, k) /\ ValOf(r, k) = c
                /\ IsErrorAdd(c) => ErrorMsg(hist[c].err) \in ErrorVals(r)

\* Two adds with distinct keys overlapped in time, both returned, and the
\* Flush invoked afterwards has emitted its record.
C5_Witness ==
    \E r \in Records :
        \E c, d \in hist[r.id].before \cap CycleOf(r.id) :
            /\ Overlap(c, d)
            /\ IsFieldAdd(c) /\ IsFieldAdd(d)
            /\ DistinctKeys(r.id)

\* -------------------------------------------------------------------- C6
\* The positions at which a goroutine reads or writes the fields map, the
\* errors slice or the output level of the Logger it was called on.
InCritical(p) == pc[p] \in {"store", "append", "esc", "snap", "reset"}

\* C6: never are two goroutines at once reading or writing the fields,
\* errors or output level of one Logger, and every goroutine that does so
\* holds that Logger's mutex.
C6_MutualExclusion ==
    /\ \A p, q \in Procs :
           (p # q /\ InCritical(p) /\ InCritical(q)) => cur[p].l # cur[q].l
    /\ \A p \in Procs : InCritical(p) => mu[cur[p].l] = p

\* One goroutine is inside its critical section while another, called on
\* the same Logger, waits for the lock.
C6_Witness ==
    \E p, q \in Procs :
        InCritical(p) /\ pc[q] = "lock" /\ cur[q].l = cur[p].l

\* -------------------------------------------------------------------- C7
\* The first Flush that took the lock after add c (0: none yet).
NextFlush(c) ==
    LET o == order[hist[c].l]
        later == {i \in DOMAIN o : i > Pos(c) /\ IsFlush(o[i])}
    IN IF later = {} THEN 0
       ELSE o[CHOOSE i \in later : \A j \in later : i <= j]

\* The map Flush f copied, once it has: held by its goroutine or emitted.
Snapshots ==
    {[id |-> cur[p].id, l |-> cur[p].l, map |-> fieldsCopy[p]] : p \in Holding}
      \cup {[id |-> r.id, l |-> r.l,
             map |-> [k \in {x \in Keys : HasKey(r, x)} |-> ValOf(r, k)]] :
              r \in Records}

\* C7: a field add that has returned is, for each of its keys, either in the
\* snapshot of the first Flush that took the lock after it and nowhere
\* else, or (no Flush having taken the lock after it) in the Logger's
\* fields and in no snapshot: never in both, never in neither.
C7_SnapshotOrNextCycle ==
    \A c \in DOMAIN hist :
        (IsFieldAdd(c) /\ hist[c].ret) =>
            LET l == hist[c].l
                f == NextFlush(c)
            IN \A k \in hist[c].keys :
                 IF f = 0 \/ (\E p \in Procs : cur[p].id = f /\ pc[p] = "snap")
                   THEN /\ k \in DOMAIN fields[l]
                        /\ \A s \in Snapshots : c \notin RangeOf(s.map)
                   ELSE /\ \E s \in Snapshots : s.id = f /\ k \in DOMAIN s.map
                        /\ \A s \in Snapshots : s.id # f => c \notin RangeOf(s.map)
                        /\ Resetting(f) \/ c \notin RangeOf(fields[l])

\* An add that overlapped in time with a Flush landed after the reset: the
\* Flush's record is out without the key, the Logger's fields hold it.
C7_Witness ==
    \E r \in Records : \E c \in DOMAIN hist :
        /\ IsFieldAdd(c) /\ hist[c].ret /\ hist[c].l = r.l
        /\ Overlap(c, r.id)
        /\ \A k \in hist[c].keys : ~HasKey(r, k) /\ k \in DOMAIN fields[r.l]

\* -------------------------------------------------------------------- C8
\* The goroutines running Flush on l that have begun their work.
FlushAt(l, where) ==
    {p \in Procs : cur[p].op = "Flush" /\ cur[p].l = l /\ pc[p] \in where}

\* C8 as stated: of two concurrent Flush calls on one Logger, one does not
\* begin its snapshot, attribute building or sink call before the other has
\* completed.
C8_OneFlushAtATimeAsStated ==
    \A l \in Loggers :
        Cardinality(FlushAt(l, {"snap", "reset", "build", "emit"})) <= 1

\* C8 amended: at most one Flush at a time runs the snapshot-and-reset part
\* on a Logger, holding its lock; the attribute building and the sink call
\* run outside the lock and may overlap with another Flush.
C8_OneSnapshotAtATime ==
    \A l \in Loggers :
        /\ Cardinality(FlushAt(l, {"snap", "reset"})) <= 1
        /\ \A p \in FlushAt(l, {"snap", "reset"}) : mu[l] = p

\* One Flush is in its snapshot-and-reset part while another Flush of the
\* same Logger waits for the lock, and a third position: one builds its
\* attributes while the other takes its snapshot.
C8_Witness ==
    \E l \in Loggers :
        /\ FlushAt(l, {"snap", "reset"}) # {}
        /\ FlushAt(l, {"build", "emit"}) # {}

\* -------------------------------------------------------------------- C9
\* Goroutine p takes a step of a call ErrorAdd(nil).
NilErrorAddStep(p) ==
    \/ \E l \in Loggers : CallErrorAdd(p, l, NilErr)
    \/ cur[p].op = "ErrorAdd" /\ cur[p].err.isNil /\ pc'[p] # pc[p]

\* C9: ErrorAdd(nil) returns at once and leaves the errors list, the fields
\* and the output level unchanged, whatever the gate level and the state.
C9_NilErrorNoOp ==
    [][\A p \in Procs :
          NilErrorAddStep(p) =>
              /\ pc'[p] = "idle"
              /\ UNCHANGED <<fields, errors, level, mu>>]_vars

\* ErrorAdd(nil) was called after two accepted adds, on a Logger that holds
\* a field and an error and whose output level is above its gate level.
C9_Witness ==
    /\ lastRej.op = "ErrorAdd" /\ lastRej.nil /\ lastRej.at = 2
    /\ \A c \in DOMAIN hist : hist[c].ret
    /\ \E l \in Loggers :
           fields[l] # EmptyMap /\ errors[l] # <<>> /\ level[l] > gateLevel[l]

ResetStep(p, l) == pc[p] = "reset" /\ cur[p].l = l /\ pc'[p] = "build"

\* C12: no step lowers the output level of a Logger except the reset inside
\* Flush: between two resets the output level never decreases, whatever
\* adds are accepted or rejected and however they interleave.
C12_LevelMonotoneUntilReset ==
    [][\A l \in Loggers :
          level'[l] < level[l] => \E p \in Procs : ResetStep(p, l)]_vars

\* An ErrorAdd raised the level to Error, a WarnAdd took the lock after it
\* and returned, a further add was gated out, and the level is still Error.
C12_Witness ==
    \E l \in Loggers :
        /\ Len(order[l]) = 2
        /\ hist[order[l][1]].op = "ErrorAdd"
        /\ hist[order[l][2]].op = "WarnAdd"
        /\ \A c \in DOMAIN hist : hist[c].ret
        /\ lastRej.op \in FieldOps /\ lastRej.at = 2
        /\ level[l] = LevelError

\* ------------------------------------------------------------------- C13
\* The ErrorAdd calls of the cycle of Flush f.
CycleErrorAdds(f) == {c \in CycleOf(f) : IsErrorAdd(c)}

C14_DurationInEveryRecord ==
    \A r \in Records : HasKey(r, "duration") /\ HasKey(r, "duration_ms")

\* ------------------------------------------------------------------- C19
\* Two units of work, each with its own Logger built by New(WithLevel(g)).
TwoLoggers == {1, 2}
TwoGates == {LevelDebug, LevelWarn}

InitTwo ==
    /\ \E g \in [TwoLoggers -> TwoGates] :
         /\ gateLevel = [l \in TwoLoggers |-> WithLevel(g[l]).gateLevel]
         /\ level = [l \in TwoLoggers |-> WithLevel(g[l]).level]
    /\ fields = [l \in TwoLoggers |-> EmptyMap]
    /\ errors = [l \in TwoLoggers |-> <<>>]
    /\ mu = [l \in TwoLoggers |-> 0]
    /\ pc = [p \in Procs |-> "idle"]
    /\ cur = [p \in Procs |-> NoCall]
    /\ todo = [p \in Procs |-> {}]
    /\ outputLevel = [p \in Procs |-> 0]
    /\ fieldsCopy = [p \in Procs |-> EmptyMap]
    /\ errorsCopy = [p \in Procs |-> <<>>]
    /\ attrs = [p \in Procs |-> <<>>]
    /\ attrPool = NoBuffers
    /\ attrsPtr = [p \in Procs |-> 0]
    /\ sink = <<>>
    /\ calls = 0
    /\ nextId = 0
    /\ lastRej = NoRej
    /\ hist = <<>>
    /\ order = [l \in TwoLoggers |-> <<>>]
    /\ logLevel = LevelInfo
    /\ ctxs = <<>>
    /\ got = NoLookup
    /\ rls = <<>>
    /\ http = NoHttp

NextTwo ==
    \E p \in Procs :
        \/ \E l \in TwoLoggers, op \in SingleOps, k \in Keys : CallAdd(p, l, op, k)
        \/ \E l \in TwoLoggers, op \in ManyOps, ks \in ManyKeySets :
               CallAddMany(p, l, op, ks)
        \/ \E l \in TwoLoggers, err \in {NilErr, MkErr(nextId + 1)} :
               CallErrorAdd(p, l, err)
        \/ \E l \in TwoLoggers : CallFlush(p, l)
        \/ Lock(p)
        \/ Store(p)
        \/ AppendError(p)
        \/ Escalate(p)
        \/ Snapshot(p)
        \/ Reset(p)
        \/ Build(p)
        \/ Emit(p)

SpecTwo == InitTwo /\ [][NextTwo]_vars

\* The state of Logger l.
LoggerState(l) == <<fields[l], errors[l], gateLevel[l], level[l], mu[l]>>

\* Goroutine p takes a step of a call on Logger l (a step of the range loop
\* of a Many add leaves its position unchanged and shortens todo).
StepOn(p, l) ==
    /\ pc[p] # "idle" /\ cur[p].l = l
    /\ pc'[p] # pc[p] \/ todo'[p] # todo[p]

\* C19: the fields, errors, gate level, output level and lock of a Logger
\* change only by a step of a call on that Logger, so a call on one Logger
\* leaves every other Logger unchanged; and a goroutine waiting for the lock
\* of its Logger can take it as soon as that lock is free, whoever holds the
\* lock of another Logger.
C19_LoggersIndependent ==
    /\ [](\A p \in Procs :
            (pc[p] = "lock" /\ mu[cur[p].l] = 0) => ENABLED Lock(p))
    /\ [][\A l \in TwoLoggers :
            LoggerState(l)' # LoggerState(l) =>
                \E p \in Procs : StepOn(p, l)]_vars

\* The two goroutines are each inside the critical section of a different
\* Logger, and the two Loggers hold different data.
C19_Witness ==
    /\ mu[1] # 0 /\ mu[2] # 0 /\ mu[1] # mu[2]
    /\ fields[1] # EmptyMap /\ fields[2] = EmptyMap
    /\ errors[2] # <<>>

\* ------------------------------------------------ contexts and global level
\* Number of contexts derived with context.WithValue in one behaviour.
MaxCtx == 3

\* context.Background(): carries no value.
Background == 0

\* The key NewContext binds the Logger under: a value of the unexported
\* type loggerKeyType.  Other code can only use keys of its own types, such
\* as the plain string with the same text.
LoggerKey == [type |-> "loggerKeyType", text |-> "canonlogger"]
ForeignKey == [type |-> "string", text |-> "canonlogger"]

\* Interface values stored in a context: nil, a *Logger, a string.
NilValue == [type |-> "nil", ptr |-> 0]
LoggerValue(l) == [type |-> "*Logger", ptr |-> l]
StringValue == [type |-> "string", ptr |-> 0]

\* The level strings handed to SetupGlobalLogger.
LevelStrs == {"DEBUG", "warn", "loud"}

\* Variants of the code below, each changed the way a slip would change it.
RECURSIVE ValueOutermost(_, _, _)
ValueOutermost(cs, c, key) ==
    IF c = Background THEN NilValue
    ELSE LET up == ValueOutermost(cs, cs[c].parent, key)
         IN IF up # NilValue THEN up
            ELSE IF cs[c].key = key THEN cs[c].val ELSE NilValue
WithValueRebind(cs, c, key, val) ==
    LET node == [parent |-> c, key |-> key, val |-> val, made |-> 0]
    IN IF c # Background /\ cs[c].key = key
         THEN Append([cs EXCEPT ![c].val = val], node)
         ELSE Append(cs, node)
KeyEqualByText(k1, k2) == k1.text = k2.text

\* strings.ToLower on the level strings.
ToLower(str) == CASE str = "DEBUG" -> "debug" [] OTHER -> str

\* The switch of SetupGlobalLogger.
ParseLevel(str) ==
    CASE ToLower(str) = "debug" -> LevelDebug
      [] ToLower(str) = "info" -> LevelInfo
      [] ToLower(str) \in {"warn", "warning"} -> LevelWarn
      [] ToLower(str) = "error" -> LevelError
      [] OTHER -> LevelInfo

\* getLogLevel().
getLogLevel == logLevel

\* Variant: New that does not apply its options.
NewIgnoresOptions(opts) == [gateLevel |-> getLogLevel, level |-> getLogLevel]

\* New(opts...): the Logger starts at the process-wide level, then every
\* option is applied in order (opts is the sequence of the levels of the
\* WithLevel options).
New(opts) ==
    IF opts = <<>> THEN [gateLevel |-> getLogLevel, level |-> getLogLevel]
    ELSE WithLevel(opts[Len(opts)])

\* Comparison of two context keys (interface values): same type, same value.
KeyEqual(k1, k2) == k1 = k2

\* ctx.Value(key) on the chain of contexts c was derived from: the value of
\* the nearest context bound under key, nil when there is none.
RECURSIVE Value(_, _, _)
Value(cs, c, key) ==
    IF c = Background THEN NilValue
    ELSE IF KeyEqual(cs[c].key, key) THEN cs[c].val
    ELSE Value(cs, cs[c].parent, key)

\* TryGetLogger(ctx): l, ok := ctx.Value(loggerKey).(*Logger); return l, ok
TryGetLogger(c) ==
    LET v == Value(ctxs, c, LoggerKey)
    IN IF v.type = "*Logger"
         THEN [l |-> v.ptr, ok |-> TRUE, panic |-> FALSE]
         ELSE [l |-> 0, ok |-> FALSE, panic |-> FALSE]

\* A variant of GetLogger that gives nil instead of panicking.
GetLoggerNoPanic(c) == TryGetLogger(c)

\* GetLogger(ctx): the Logger when the assertion succeeds, a panic otherwise.
GetLogger(c) ==
    LET v == Value(ctxs, c, LoggerKey)
    IN IF v.type = "*Logger"
         THEN [l |-> v.ptr, ok |-> TRUE, panic |-> FALSE]
         ELSE [l |-> 0, ok |-> FALSE, panic |-> TRUE]

\* The contexts a caller can hold: Background and every derived one.
Contexts == 0..Len(ctxs)

\* The Loggers created so far.
Allocated == DOMAIN gateLevel

\* The one goroutine of a unit of work that uses its Logger through the
\* context.
CarrierProcs == {1}

\* context.WithValue(ctx, key, val): a new context whose parent is ctx; ctx
\* itself is not changed.  The new context is the last of the table.  (made
\* records the Logger that the NewContext call deriving it created.)
WithValue(cs, c, key, val) ==
    Append(cs, [parent |-> c, key |-> key, val |-> val, made |-> 0])

\* The Logger functions extended by a Logger New has just built.
Alloc(f, x) == f @@ ((Cardinality(DOMAIN f) + 1) :> x)

\* A call of the package that is not a Logger method: it counts as one of
\* the calls of the behaviour.
Called(p) ==
    /\ pc[p] = "idle"
    /\ calls < MaxCalls
    /\ calls' = calls + 1
    /\ UNCHANGED <<pc, cur, locals, sink, nextId, lastRej, hist>>

\* context.WithValue(ctx, loggerKey, New()): a Logger is built and a
\* context bound to it is derived from c.
DeriveLogger(c) ==
    LET n == Cardinality(Allocated) + 1
    IN /\ gateLevel' = Alloc(gateLevel, New(<<>>).gateLevel)
       /\ level' = Alloc(level, New(<<>>).level)
       /\ fields' = Alloc(fields, EmptyMap)
       /\ errors' = Alloc(errors, <<>>)
       /\ mu' = Alloc(mu, 0)
       /\ order' = Alloc(order, <<>>)
       /\ ctxs' = [WithValue(ctxs, c, LoggerKey, LoggerValue(n))
                     EXCEPT ![Len(ctxs) + 1].made = n]

\* NewContext(ctx) called by the unit of work.
NewContext(p, c) ==
    /\ Called(p)
    /\ Len(ctxs) < MaxCtx
    /\ DeriveLogger(c)
    /\ UNCHANGED <<logLevel, got, web, pooled>>

\* Code of another package derives a context under a key of its own, with
\* a string or with a Logger it got hold of.
WithValueForeign(p, c, v) ==
    /\ Called(p)
    /\ Len(ctxs) < MaxCtx
    /\ ctxs' = WithValue(ctxs, c, ForeignKey, v)
    /\ UNCHANGED <<shared, order, logLevel, got, web, pooled>>

\* SetupGlobalLogger(levelStr, logFormat): logLevel.Store(int32(level)).
SetupGlobalLogger(p, str) ==
    /\ Called(p)
    /\ logLevel' = ParseLevel(str)
    /\ UNCHANGED <<shared, order, ctxs, got, web, pooled>>

\* A call of GetLogger(ctx) or TryGetLogger(ctx) by the unit of work; a
\* panic of GetLogger is recovered by the caller.
Lookup(p, fn, c) ==
    /\ Called(p)
    /\ got' = [fn |-> fn, ctx |-> c,
               l |-> (IF fn = "GetLogger" THEN GetLogger(c) ELSE TryGetLogger(c)).l,
               ok |-> (IF fn = "GetLogger" THEN GetLogger(c) ELSE TryGetLogger(c)).ok,
               panic |-> (IF fn = "GetLogger" THEN GetLogger(c) ELSE TryGetLogger(c)).panic]
    /\ UNCHANGED <<shared, order, logLevel, ctxs, web, pooled>>

\* GetLogger(ctx) panicked inside a package helper: the helper does nothing.
HelperPanic(p, c) ==
    /\ Called(p)
    /\ got' = [fn |-> "GetLogger", ctx |-> c, l |-> 0, ok |-> FALSE,
               panic |-> TRUE]
    /\ UNCHANGED <<shared, order, logLevel, ctxs, web, pooled>>

\* The package helpers: GetLogger(ctx).DebugAdd(key, value), and so on.
HelperAdd(p, c, op, k) ==
    IF GetLogger(c).panic THEN HelperPanic(p, c)
    ELSE CallAdd(p, GetLogger(c).l, op, k)

HelperAddMany(p, c, op, ks) ==
    IF GetLogger(c).panic THEN HelperPanic(p, c)
    ELSE CallAddMany(p, GetLogger(c).l, op, ks)

HelperErrorAdd(p, c, err) ==
    IF GetLogger(c).panic THEN HelperPanic(p, c)
    ELSE CallErrorAdd(p, GetLogger(c).l, err)

HelperFlush(p, c) ==
    IF GetLogger(c).panic THEN HelperPanic(p, c)
    ELSE CallFlush(p, GetLogger(c).l)

\* The program has started: logLevel is Info (init), no Logger, no context.
InitCarrier ==
    /\ gateLevel = <<>>
    /\ level = <<>>
    /\ fields = <<>>
    /\ errors = <<>>
    /\ mu = <<>>
    /\ order = <<>>
    /\ pc = [p \in Procs |-> "idle"]
    /\ cur = [p \in Procs |-> NoCall]
    /\ todo = [p \in Procs |-> {}]
    /\ outputLevel = [p \in Procs |-> 0]
    /\ fieldsCopy = [p \in Procs |-> EmptyMap]
    /\ errorsCopy = [p \in Procs |-> <<>>]
    /\ attrs = [p \in Procs |-> <<>>]
    /\ attrPool = NoBuffers
    /\ attrsPtr = [p \in Procs |-> 0]
    /\ sink = <<>>
    /\ calls = 0
    /\ nextId = 0
    /\ lastRej = NoRej
    /\ hist = <<>>
    /\ logLevel = LevelInfo
    /\ ctxs = <<>>
    /\ got = NoLookup
    /\ rls = <<>>
    /\ http = NoHttp

NextCarrier ==
    \E p \in CarrierProcs :
        \/ \E c \in Contexts : NewContext(p, c)
        \/ \E c \in Contexts, v \in {StringValue} \cup {LoggerValue(l) : l \in Allocated} :
               WithValueForeign(p, c, v)
        \/ \E str \in LevelStrs : SetupGlobalLogger(p, str)
        \/ \E c \in Contexts, fn \in {"GetLogger", "TryGetLogger"} : Lookup(p, fn, c)
        \/ \E c \in Contexts, op \in SingleOps, k \in Keys : HelperAdd(p, c, op, k)
        \/ \E c \in Contexts, op \in ManyOps, ks \in ManyKeySets :
               HelperAddMany(p, c, op, ks)
        \/ \E c \in Contexts, err \in {NilErr, MkErr(nextId + 1)} :
               HelperErrorAdd(p, c, err)
        \/ \E c \in Contexts : HelperFlush(p, c)
        \/ Lock(p)
        \/ Store(p)
        \/ AppendError(p)
        \/ Escalate(p)
        \/ Snapshot(p)
        \/ Reset(p)
        \/ Build(p)
        \/ Emit(p)

SpecCarrier == InitCarrier /\ [][NextCarrier]_vars

\* ------------------------------------------------ vocabulary of the carrier
\* The contexts on the chain from c up to Background.
RECURSIVE Chain(_)
Chain(c) == IF c = Background THEN {} ELSE {c} \cup Chain(ctxs[c].parent)

\* The contexts of the chain of c that a NewContext call derived, and the
\* Logger c is bound to: the one created by the NewContext call nearest to
\* c (a derived context comes after its parent), 0 when c is unbound.
Binders(c) == {a \in Chain(c) : ctxs[a].made # 0}
Owner(c) == IF Binders(c) = {} THEN 0 ELSE ctxs[MaxOf(Binders(c))].made

Found(l) == [l |-> l, ok |-> TRUE, panic |-> FALSE]
NotFound == [l |-> 0, ok |-> FALSE, panic |-> FALSE]
Panicked == [l |-> 0, ok |-> FALSE, panic |-> TRUE]
GotResult == [l |-> got.l, ok |-> got.ok, panic |-> got.panic]

\* ------------------------------------------------------------------- C15
\* C15: for every context derived by a NewContext call, in every state
\* (whatever lookups, adds and flushes have happened), GetLogger and
\* TryGetLogger give the Logger that this NewContext call created, and so
\* did the most recent lookup made; a derived context is never changed.
C15_CarrierRoundTrip ==
    /\ [](/\ \A c \in 1..Len(ctxs) :
                ctxs[c].made # 0 =>
                    /\ GetLogger(c) = Found(ctxs[c].made)
                    /\ TryGetLogger(c) = Found(ctxs[c].made)
          /\ (got.fn # "none" /\ got.ctx # Background /\ ctxs[got.ctx].made # 0)
                => GotResult = Found(ctxs[got.ctx].made))
    /\ [][\A c \in 1..Len(ctxs) : ctxs'[c] = ctxs[c]]_vars

\* An add through the context stored a field in the Logger of a NewContext
\* call, and a lookup on that context made afterwards gave that Logger.
C15_Witness ==
    /\ got.fn # "none" /\ got.ctx # Background
    /\ ctxs[got.ctx].made # 0
    /\ GotResult = Found(ctxs[got.ctx].made)
    /\ fields[got.l] # EmptyMap

C17_TryGetLoggerProbe ==
    /\ \A c \in Contexts :
           /\ ~TryGetLogger(c).panic
           /\ Owner(c) = 0 => TryGetLogger(c) = NotFound
           /\ TryGetLogger(c).ok =>
                  /\ TryGetLogger(c).l \in Allocated
                  /\ TryGetLogger(c).l = Owner(c)
    /\ got.fn = "TryGetLogger" =>
           /\ ~got.panic
           /\ Owner(got.ctx) = 0 => GotResult = NotFound
           /\ got.ok => got.l \in Allocated /\ got.l = Owner(got.ctx)

\* TryGetLogger gave (nil, false) on a context that carries a Logger under
\* the key of another package and no binding of NewContext.
C17_Witness ==
    /\ got.fn = "TryGetLogger" /\ GotResult = NotFound
    /\ got.ctx # Background
    /\ ctxs[got.ctx].val.type = "*Logger"

\* ------------------------------------------------------------------- C18
\* The step is a NewContext call.
NewContextStep ==
    /\ Len(ctxs') = Len(ctxs) + 1
    /\ ctxs'[Len(ctxs')].made # 0

\* C18: a NewContext call leaves the result of TryGetLogger on every
\* existing context (its argument included) as it was; the context it
\* returns resolves to the Logger the call created, which is a new one.
C18_NewContextFrame ==
    [][NewContextStep =>
          /\ \A c \in Contexts : TryGetLogger(c)' = TryGetLogger(c)
          /\ \A n \in {Len(ctxs) + 1} :
                 TryGetLogger(n)' = Found(ctxs'[n].made)
          /\ ctxs'[Len(ctxs')].made \notin Allocated]_vars

\* NewContext was called on a context bound to a Logger that holds a field:
\* the derived context resolves to another Logger.
C18_Witness ==
    \E c \in 1..Len(ctxs) :
        /\ ctxs[c].made # 0
        /\ ctxs[c].parent # Background
        /\ Owner(ctxs[c].parent) # 0
        /\ fields[Owner(ctxs[c].parent)] # EmptyMap
        /\ Owner(c) # Owner(ctxs[c].parent)

\* ------------------------------------------------------------------- C20
\* C20: a Logger created by New() while the global level is Debug has
\* output level Info; DebugAdd and InfoAdd leave it at Info; only WarnAdd
\* and ErrorAdd raise it, to Warn and Error.
C20_DebugGlobalStartsAtInfo ==
    \A l \in Allocated :
        gateLevel[l] = LevelDebug =>
            /\ level[l] >= LevelInfo
            /\ (\A c \in DOMAIN hist :
                    hist[c].l = l => ~Escalates(hist[c].op)) => level[l] = LevelInfo

\* ------------------------------------------------------------------- C21
\* The option lists a caller passes to New: none, or one WithLevel.
LevelOpts == {<<>>} \cup {<<g>> : g \in GateLevels}

\* l := New(opts...) called by the program itself.
NewLogger(p, opts) ==
    /\ Called(p)
    /\ gateLevel' = Alloc(gateLevel, New(opts).gateLevel)
    /\ level' = Alloc(level, New(opts).level)
    /\ fields' = Alloc(fields, EmptyMap)
    /\ errors' = Alloc(errors, <<>>)
    /\ mu' = Alloc(mu, 0)
    /\ order' = Alloc(order, <<>>)
    /\ UNCHANGED carrier

\* A program that sets the process-wide level, creates Loggers with and
\* without WithLevel and calls their methods, in any order.
NextLevels ==
    \E p \in CarrierProcs :
        \/ \E str \in LevelStrs : SetupGlobalLogger(p, str)
        \/ \E opts \in LevelOpts : NewLogger(p, opts)
        \/ \E l \in Allocated, op \in SingleOps, k \in Keys : CallAdd(p, l, op, k)
        \/ \E l \in Allocated, op \in ManyOps, ks \in ManyKeySets :
               CallAddMany(p, l, op, ks)
        \/ \E l \in Allocated, err \in {NilErr, MkErr(nextId + 1)} :
               CallErrorAdd(p, l, err)
        \/ \E l \in Allocated : CallFlush(p, l)
        \/ Lock(p)
        \/ Store(p)
        \/ AppendError(p)
        \/ Escalate(p)
        \/ Snapshot(p)
        \/ Reset(p)
        \/ Build(p)
        \/ Emit(p)

SpecLevels == InitCarrier /\ [][NextLevels]_vars

\* The level the claim says New(opts...) gives the Logger.
LevelAsked(opts) == IF opts = <<>> THEN logLevel ELSE opts[1]

RejectedAddStep(p) ==
    \E l \in Loggers :
        \/ \E op \in SingleOps, k \in Keys :
              Severity(op) < gateLevel[l] /\ CallAdd(p, l, op, k)
        \/ \E op \in ManyOps, ks \in ManyKeySets :
              /\ ks = {} \/ Severity(op) < gateLevel[l]
              /\ CallAddMany(p, l, op, ks)

\* C22: a rejected add returns at once without taking the lock and leaves
\* fields, errors and output level as they were; it can be made, and
\* returns, in every state in which its goroutine is free to call, whoever
\* holds the lock.
C22_RejectedAddNoOp ==
    /\ [](\A p \in Procs :
            (pc[p] = "idle" /\ calls > 0 /\ calls < MaxCalls) =>
                ENABLED (\E l \in Loggers :
                            CallAddMany(p, l, "WarnAddMany", {})))
    /\ [][\A p \in Procs :
            RejectedAddStep(p) =>
                /\ pc'[p] = "idle"
                /\ UNCHANGED <<gateLevel, level, fields, errors, mu, order,
                               locals, sink>>]_vars

\* WarnAddMany with an empty map was rejected on a Logger whose gate admits
\* Warn, while the other goroutine, whose call began before, holds the
\* lock with its batch not yet stored.
C22_Witness ==
    /\ lastRej.op = "WarnAddMany" /\ lastRej.empty
    /\ \E q \in Procs, l \in Loggers :
        /\ gateLevel[l] <= LevelWarn
        /\ mu[l] = q
        /\ pc[q] = "store" /\ todo[q] = Keys
        /\ cur[q].id = lastRej.at

\* ------------------------------------------------------------------- C23
\* The panic of GetLogger(c) as the caller of a helper sees it: no Logger
\* is created or modified and no call of a method begins.
PanicsUntouched(p, c) ==
    /\ got' = [fn |-> "GetLogger", ctx |-> c, l |-> 0, ok |-> FALSE,
               panic |-> TRUE]
    /\ UNCHANGED <<shared, order, ctxs, pc, cur, hist, sink, lastRej>>

\* What the claim says a helper called with context c does: step A of the
\* method on the Logger c is bound to, or the panic when c is unbound.
AsMethod(p, c, A) == IF Owner(c) = 0 THEN PanicsUntouched(p, c) ELSE A

\* C23: every call of a package helper with context c is the call of the
\* same-named method on the Logger c is bound to, with the same arguments;
\* on an unbound context it panics and leaves every Logger as it was.
C23_HelpersAreMethods ==
    [][\A p \in CarrierProcs, c \in Contexts :
        /\ \A op \in SingleOps, k \in Keys :
              HelperAdd(p, c, op, k) => AsMethod(p, c, CallAdd(p, Owner(c), op, k))
        /\ \A op \in ManyOps, ks \in ManyKeySets :
              HelperAddMany(p, c, op, ks) =>
                  AsMethod(p, c, CallAddMany(p, Owner(c), op, ks))
        /\ \A err \in {NilErr, MkErr(nextId + 1)} :
              HelperErrorAdd(p, c, err) =>
                  AsMethod(p, c, CallErrorAdd(p, Owner(c), err))
        /\ HelperFlush(p, c) => AsMethod(p, c, CallFlush(p, Owner(c)))]_vars

\* Two nested NewContext calls, then a helper add through the inner
\* context has stored into the inner Logger and left the outer one empty.
C23_Witness ==
    \E c \in Contexts \ {Background} :
        /\ ctxs[c].parent # Background
        /\ Owner(c) # 0 /\ Owner(ctxs[c].parent) # 0
        /\ Owner(c) # Owner(ctxs[c].parent)
        /\ fields[Owner(c)] # EmptyMap
        /\ fields[Owner(ctxs[c].parent)] = EmptyMap

\* ------------------------------------------------------ the HTTP middleware
MaxWrites == 2
StatusOK == 200

\* The levels SetupGlobalLogger can configure.
HttpLevels == {LevelDebug, LevelInfo, LevelWarn, LevelError}

\* The status codes a handler writes and the byte counts the underlying
\* ResponseWriter reports for one Write.
HandlerCodes == {404, 500}
WriteResults == {2}

\* The incoming X-Request-ID header: absent or present.
Headers == {"", "header-id"}

\* The key under which chi's RequestID middleware stores its id, and a
\* context value holding one.
ChiKey == [type |-> "ctxKeyRequestID", text |-> "0"]
ChiValue == [type |-> "string", ptr |-> 0, text |-> "chi-id"]

\* middleware.GetReqID(ctx): the string under chi's key, or "".
GetReqID(c) ==
    LET v == Value(ctxs, c, ChiKey)
    IN IF v.type = "string" THEN v.text ELSE ""

\* The generator parameter of Middleware / ChiMiddleware and the package
\* variable RequestIDGenerator, by the name of the function they hold.
Kinds == {"Middleware", "ChiMiddleware"}
Params == {"nil", "custom"}
Globals == {"GenerateRequestID", "override"}

\* if generator == nil { generator = canonlog.RequestIDGenerator }
Capture(param, global) == IF param = "nil" THEN global ELSE param

\* The string a generator returns.
Generated(g) ==
    CASE g = "custom" -> "custom-id"
      [] g = "override" -> "override-id"
      [] OTHER -> "uuid-v7"

\* Variant: Middleware that generates an id even when the header has one.
MiddlewareIDAlwaysGenerates(header, g) == [id |-> Generated(g), invoked |-> <<g>>]

\* Middleware: the header, else the generator.
MiddlewareID(header, g) ==
    IF header # "" THEN [id |-> header, invoked |-> <<>>]
    ELSE [id |-> Generated(g), invoked |-> <<g>>]

\* ChiMiddleware: chi's id, else the header, else the generator.
ChiMiddlewareID(c, header, g) ==
    IF GetReqID(c) # "" THEN [id |-> GetReqID(c), invoked |-> <<>>]
    ELSE MiddlewareID(header, g)

\* The keys of the two map literals the middleware stores.  (path,
\* user_agent, remote_ip and host are read from the request and stored by
\* the same map literal as method; method stands for the five.)
RequestKeys == {"requestID", "method"}
ResponseKeys == {"status", "response_size"}

\* The values of the two map literals.
RequestFields == ("requestID" :> http.requestID) @@ ("method" :> "GET")
ResponseFields ==
    ("status" :> http.ww.status) @@ ("response_size" :> http.ww.bytesWritten)

\* Variant: WriteHeader without the wroteHeader test.
WriteHeaderEveryTime(w, code) ==
    [ww |-> [w.ww EXCEPT !.wroteHeader = TRUE, !.status = code],
     under |-> [w.under EXCEPT !.codes = Append(@, code)]]

\* responseWriter.WriteHeader(statusCode), on the pair of the wrapper and
\* what the underlying ResponseWriter has received.
WriteHeader(w, code) ==
    IF w.ww.wroteHeader THEN w
    ELSE [ww |-> [w.ww EXCEPT !.wroteHeader = TRUE, !.status = code],
          under |-> [w.under EXCEPT !.codes = Append(@, code)]]

\* responseWriter.Write(data), the underlying Write reporting n bytes.
Write(w, n) ==
    LET w1 == IF ~w.ww.wroteHeader THEN WriteHeader(w, StatusOK) ELSE w
    IN [ww |-> [w1.ww EXCEPT !.bytesWritten = @ + n],
        under |-> [w1.under EXCEPT !.bytes = @ + n]]

\* The calls the handler has made on ww, in order (wlog), and the wrapper
\* and its underlying ResponseWriter as one value.
Writer == [ww |-> http.ww, under |-> http.under]

\* The Logger the request context is bound to: GetLogger(ctx) inside the
\* helpers the middleware calls.
RequestLoggerOf == GetLogger(http.ctx).l

\* A middleware statement that touches neither Logger nor goroutine.
MwLocal(p) ==
    /\ pc[p] = "idle"
    /\ UNCHANGED <<shared, pc, cur, locals, sink, ghost, logLevel, ctxs, got, rls, pooled>>

\* ctx := canonlog.NewContext(r.Context()), for a request with some
\* context.
MwNewContext(p) ==
    /\ http.pc = "start"
    /\ pc[p] = "idle"
    /\ \E parent \in Contexts :
         /\ DeriveLogger(parent)
         /\ http' = [http EXCEPT !.pc = "id", !.ctx = Len(ctxs) + 1]
    /\ UNCHANGED <<pc, cur, locals, sink, calls, nextId, lastRej, hist,
                   logLevel, got, rls, pooled>>

\* requestID := ... : the chain of sources of the middleware in use
\* (kind), built with generator parameter param while the package
\* variable held global, for a request with X-Request-ID header.
MwRequestID(p, kind, param, global, header) ==
    /\ http.pc = "id"
    /\ LET sel == IF kind = "ChiMiddleware"
                    THEN ChiMiddlewareID(http.ctx, header, Capture(param, global))
                    ELSE MiddlewareID(header, Capture(param, global))
       IN http' = [http EXCEPT !.pc = "add", !.requestID = sel.id,
                                !.invoked = sel.invoked]
    /\ MwLocal(p)

\* canonlog.InfoAddMany(ctx, {requestID, method, ...}): the gate check.
MwAddRequest(p) ==
    /\ http.pc = "add"
    /\ Invoke(p, RequestLoggerOf, "InfoAddMany", RequestKeys, NilErr,
              ManyAccepted(RequestLoggerOf, "InfoAddMany", RequestKeys))
    /\ http' = [http EXCEPT !.pc = "sethdr",
                 !.payload = IF ManyAccepted(RequestLoggerOf, "InfoAddMany", RequestKeys)
                               THEN @ @@ ((nextId + 1) :> RequestFields)
                               ELSE @]
    /\ UNCHANGED <<calls, logLevel, ctxs, got, rls, pooled>>

\* w.Header().Set("X-Request-ID", requestID);
\* ww := &responseWriter{ResponseWriter: w, status: http.StatusOK}
MwSetHeader(p) ==
    /\ http.pc = "sethdr"
    /\ http' = [http EXCEPT !.pc = "serve", !.respHeader = http.requestID,
                             !.ww = [NoResponseWriter EXCEPT !.status = StatusOK]]
    /\ MwLocal(p)

\* The handler calls ww.WriteHeader(code).
HandlerWriteHeader(p, code) ==
    /\ http.pc = "serve"
    /\ Len(http.wlog) < MaxWrites
    /\ http' = [http EXCEPT !.ww = WriteHeader(Writer, code).ww,
                             !.under = WriteHeader(Writer, code).under,
                             !.wlog = Append(@, [op |-> "WriteHeader", arg |-> code])]
    /\ MwLocal(p)

\* The handler calls ww.Write(data); the underlying Write reports n bytes.
HandlerWrite(p, n) ==
    /\ http.pc = "serve"
    /\ Len(http.wlog) < MaxWrites
    /\ http' = [http EXCEPT !.ww = Write(Writer, n).ww,
                             !.under = Write(Writer, n).under,
                             !.wlog = Append(@, [op |-> "Write", arg |-> n])]
    /\ MwLocal(p)

\* The handler uses the Logger of the request context through the package
\* helpers.
HandlerWarnAdd(p) == http.pc = "serve" /\ HelperAdd(p, http.ctx, "WarnAdd", "status")
HandlerErrorAdd(p) == http.pc = "serve" /\ HelperErrorAdd(p, http.ctx, MkErr(nextId + 1))
HandlerFlush(p) == http.pc = "serve" /\ HelperFlush(p, http.ctx)

\* Variant: the two closing statements not deferred, so that a panic of
\* the handler skips them.
DeferredSkippedOnPanic(panics) == IF panics THEN "done" ELSE "deferAdd"

\* defer func() { ... }(): where control goes when next.ServeHTTP ends,
\* by return or by panic.
Deferred(panics) == "deferAdd"

\* next.ServeHTTP returns, or panics: the deferred function runs next.
HandlerEnds(p, panics) ==
    /\ http.pc = "serve"
    /\ http' = [http EXCEPT !.pc = Deferred(panics), !.panicked = panics]
    /\ MwLocal(p)

\* deferred: canonlog.InfoAddMany(ctx, {status, response_size}).
MwDeferAdd(p) ==
    /\ http.pc = "deferAdd"
    /\ Invoke(p, RequestLoggerOf, "InfoAddMany", ResponseKeys, NilErr,
              ManyAccepted(RequestLoggerOf, "InfoAddMany", ResponseKeys))
    /\ http' = [http EXCEPT !.pc = "deferFlush",
                 !.payload = IF ManyAccepted(RequestLoggerOf, "InfoAddMany", ResponseKeys)
                               THEN @ @@ ((nextId + 1) :> ResponseFields)
                               ELSE @]
    /\ UNCHANGED <<calls, logLevel, ctxs, got, rls, pooled>>

\* deferred: canonlog.Flush(ctx).
MwDeferFlush(p) ==
    /\ http.pc = "deferFlush"
    /\ Invoke(p, RequestLoggerOf, "Flush", {}, NilErr, TRUE)
    /\ http' = [http EXCEPT !.pc = "flushing", !.flushId = nextId + 1]
    /\ UNCHANGED <<calls, logLevel, ctxs, got, rls, pooled>>

\* The deferred function returns: the request is over (a panic of the
\* handler goes on to the server).
MwDone(p) ==
    /\ http.pc = "flushing"
    /\ http' = [http EXCEPT !.pc = "done"]
    /\ MwLocal(p)

\* A server whose global level was configured, about to serve one request
\* through the middleware; chi's RequestID middleware has derived a
\* context holding an id.
InitHTTP ==
    /\ gateLevel = <<>>
    /\ level = <<>>
    /\ fields = <<>>
    /\ errors = <<>>
    /\ mu = <<>>
    /\ order = <<>>
    /\ pc = [p \in Procs |-> "idle"]
    /\ cur = [p \in Procs |-> NoCall]
    /\ todo = [p \in Procs |-> {}]
    /\ outputLevel = [p \in Procs |-> 0]
    /\ fieldsCopy = [p \in Procs |-> EmptyMap]
    /\ errorsCopy = [p \in Procs |-> <<>>]
    /\ attrs = [p \in Procs |-> <<>>]
    /\ attrPool = NoBuffers
    /\ attrsPtr = [p \in Procs |-> 0]
    /\ sink = <<>>
    /\ calls = 0
    /\ nextId = 0
    /\ lastRej = NoRej
    /\ hist = <<>>
    /\ logLevel \in HttpLevels
    /\ ctxs = WithValue(<<>>, Background, ChiKey, ChiValue)
    /\ got = NoLookup
    /\ rls = <<>>
    /\ http = [NoHttp EXCEPT !.pc = "start"]

\* The request goroutine runs the middleware; the handler writes the
\* response and uses the Logger of the request context.
NextHTTP ==
    \E p \in CarrierProcs :
        \/ MwNewContext(p)
        \/ \E kind \in Kinds, param \in Params, global \in Globals,
              header \in Headers :
               MwRequestID(p, kind, param, global, header)
        \/ MwAddRequest(p)
        \/ MwSetHeader(p)
        \/ \E code \in HandlerCodes : HandlerWriteHeader(p, code)
        \/ \E n \in WriteResults : HandlerWrite(p, n)
        \/ HandlerWarnAdd(p)
        \/ HandlerErrorAdd(p)
        \/ HandlerFlush(p)
        \/ \E panics \in BOOLEAN : HandlerEnds(p, panics)
        \/ MwDeferAdd(p)
        \/ MwDeferFlush(p)
        \/ MwDone(p)
        \/ Lock(p)
        \/ Store(p)
        \/ AppendError(p)
        \/ Escalate(p)
        \/ Snapshot(p)
        \/ Reset(p)
        \/ Build(p)
        \/ Emit(p)

SpecHTTP == InitHTTP /\ [][NextHTTP]_vars

\* ------------------------------------------- vocabulary of the middleware
\* The request has reached the handler, or gone past it.
Serving == http.pc \in {"serve", "deferAdd", "deferFlush", "flushing", "done"}

\* Attribute k of record r was stored by the middleware; its value.
ByMiddleware(r, k) == HasKey(r, k) /\ ValOf(r, k) \in DOMAIN http.payload
FieldOf(r, k) == http.payload[ValOf(r, k)][k]

\* The id chi stored in the context the request arrived with ("": none).
ChiBinders(c) == {a \in Chain(c) : ctxs[a].key = ChiKey}
ChiIDOn(c) == IF ChiBinders(c) = {} THEN "" ELSE ctxs[MaxOf(ChiBinders(c))].val.text

\* The record of the middleware's own Flush.
FinalRecords == {r \in Records : http.flushId # 0 /\ r.id = http.flushId}

\* ------------------------------------------------------------------- C24
\* The request id the claim names, and the generator it says is invoked.
WantID(kind, param, global, header) ==
    IF kind = "ChiMiddleware" /\ ChiIDOn(http.ctx) # ""
      THEN [id |-> ChiIDOn(http.ctx), invoked |-> <<>>]
    ELSE IF header # "" THEN [id |-> header, invoked |-> <<>>]
    ELSE IF param # "nil" THEN [id |-> Generated(param), invoked |-> <<param>>]
    ELSE [id |-> Generated(global), invoked |-> <<global>>]

\* C24: the request id is the first non-empty of the sources of the
\* middleware in use (Middleware: header, generator; ChiMiddleware: chi's
\* id, header, generator), the generator being the parameter when it is
\* not nil and the package variable otherwise and being invoked only when
\* every earlier source is empty; the response header X-Request-ID and
\* every requestID field the middleware stores carry that id.
C24_RequestIDSelection ==
    /\ [](/\ Serving => http.respHeader = http.requestID
          /\ \A r \in Records :
               ByMiddleware(r, "requestID") => FieldOf(r, "requestID") = http.requestID
          /\ \A l \in Allocated :
               "requestID" \in DOMAIN fields[l] =>
                   http.payload[fields[l]["requestID"]]["requestID"] = http.requestID)
    /\ [][/\ \A p \in CarrierProcs, kind \in Kinds, param \in Params,
                global \in Globals, header \in Headers :
                MwRequestID(p, kind, param, global, header) =>
                    /\ http'.requestID = WantID(kind, param, global, header).id
                    /\ http'.invoked = WantID(kind, param, global, header).invoked
          /\ http.pc # "id" =>
                /\ http'.requestID = http.requestID
                /\ http'.invoked = http.invoked]_vars

\* A request without X-Request-ID header arrived with a context holding
\* chi's id; the middleware invoked the overridden package generator, so
\* it is Middleware built with nil; the response header and the requestID
\* field of the final record carry the generated id.
C24_Witness ==
    /\ http.pc = "done"
    /\ ChiIDOn(http.ctx) # ""
    /\ http.invoked = <<"override">>
    /\ http.respHeader = Generated("override")
    /\ \E r \in FinalRecords :
        ByMiddleware(r, "requestID") /\ FieldOf(r, "requestID") = Generated("override")

\* ------------------------------------------------------------------- C25
\* C25: at every configured level the record emitted when the request
\* completes holds the request and response metadata the middleware
\* captured.
C25_MetadataInFinalRecord ==
    \A r \in FinalRecords :
        \A k \in RequestKeys \cup ResponseKeys : ByMiddleware(r, k)

\* ------------------------------------------------- the legacy RequestLogger
\* requestLoggerKey, of the unexported type requestLoggerKeyType.
RequestLoggerKey == [type |-> "requestLoggerKeyType", text |-> "requestLogger"]
RequestLoggerValue(n) == [type |-> "*RequestLogger", ptr |-> n]

\* NewRequestLogger(): no fields, no errors, level Info.
NewRequestLogger ==
    [fields |-> EmptyMap, errors |-> <<>>, level |-> LevelInfo,
     message |-> "Request completed"]

\* rl.WithField(key, value)
WithField(rl, k, v) == [rl EXCEPT !.fields = Put(@, k, v)]

\* rl.WithFields(fields): every entry of the map is stored.
WithFields(rl, ks, v) ==
    [rl EXCEPT !.fields =
        [x \in (DOMAIN @) \cup ks |-> IF x \in ks THEN v ELSE @[x]]]

\* rl.WithError(err): nil is ignored.
WithError(rl, err) ==
    IF err.isNil THEN rl
    ELSE [rl EXCEPT !.errors = Append(@, err), !.level = LevelError,
                    !.message = "Request failed"]

\* The attributes rl.Log builds: the two durations, the fields in map
\* iteration order, then "error" for one error or "errors" for several.
LogAttrs(rl, ord) ==
    <<[key |-> "duration", val |-> 0], [key |-> "duration_ms", val |-> 0]>>
      \o [i \in 1..Len(ord) |-> [key |-> ord[i], val |-> rl.fields[ord[i]]]]
      \o (IF Len(rl.errors) = 1
            THEN <<[key |-> "error", val |-> ErrorMsg(rl.errors[1])]>>
          ELSE IF Len(rl.errors) > 1
            THEN <<[key |-> "errors",
                    val |-> [i \in 1..Len(rl.errors) |-> ErrorMsg(rl.errors[i])]]>>
          ELSE <<>>)

\* Variant: the fallback of GetRequestLogger hands out the RequestLogger
\* created last instead of a new one.
GetRequestLoggerShared(c) ==
    LET v == Value(ctxs, c, RequestLoggerKey)
    IN IF v.type = "*RequestLogger" THEN [l |-> v.ptr, fresh |-> FALSE]
       ELSE IF rls # <<>> THEN [l |-> Len(rls), fresh |-> FALSE]
       ELSE [l |-> Len(rls) + 1, fresh |-> TRUE]

\* GetRequestLogger(ctx): the RequestLogger bound to ctx, or else a new one
\* (fresh: NewRequestLogger() was called for it).
GetRequestLogger(c) ==
    LET v == Value(ctxs, c, RequestLoggerKey)
    IN IF v.type = "*RequestLogger" THEN [l |-> v.ptr, fresh |-> FALSE]
       ELSE [l |-> Len(rls) + 1, fresh |-> TRUE]

\* The RequestLoggers after GetRequestLogger(c) has run.
Looked(c) == IF GetRequestLogger(c).fresh THEN Append(rls, NewRequestLogger) ELSE rls

\* NewRequestContext(ctx): context.WithValue(ctx, requestLoggerKey,
\* NewRequestLogger()).
NewRequestContext(p, c) ==
    /\ Called(p)
    /\ Len(ctxs) < MaxCtx
    /\ rls' = Append(rls, NewRequestLogger)
    /\ ctxs' = [WithValue(ctxs, c, RequestLoggerKey, RequestLoggerValue(Len(rls) + 1))
                  EXCEPT ![Len(ctxs) + 1].made = Len(rls) + 1]
    /\ UNCHANGED <<shared, order, logLevel, got, http, pooled>>

\* A call of GetRequestLogger(ctx) by the program.
GetRequestLoggerCall(p, c) ==
    /\ Called(p)
    /\ rls' = Looked(c)
    /\ got' = [fn |-> "GetRequestLogger", ctx |-> c, l |-> GetRequestLogger(c).l,
               ok |-> TRUE, panic |-> FALSE]
    /\ UNCHANGED <<shared, order, logLevel, ctxs, http, pooled>>

\* AddRequestField(ctx, key, value)
AddRequestField(p, c, k) ==
    /\ Called(p)
    /\ rls' = [Looked(c) EXCEPT ![GetRequestLogger(c).l] = WithField(@, k, calls + 1)]
    /\ UNCHANGED <<shared, order, logLevel, ctxs, got, http, pooled>>

\* AddRequestFields(ctx, fields)
AddRequestFields(p, c, ks) ==
    /\ Called(p)
    /\ rls' = [Looked(c) EXCEPT ![GetRequestLogger(c).l] = WithFields(@, ks, calls + 1)]
    /\ UNCHANGED <<shared, order, logLevel, ctxs, got, http, pooled>>

\* AddRequestError(ctx, err)
AddRequestError(p, c, err) ==
    /\ Called(p)
    /\ rls' = [Looked(c) EXCEPT ![GetRequestLogger(c).l] = WithError(@, err)]
    /\ UNCHANGED <<shared, order, logLevel, ctxs, got, http, pooled>>

\* LogRequest(ctx): GetRequestLogger(ctx).Log(ctx); the sink receives the
\* context, the level, the message and the attributes.
LogRequest(p, c) ==
    /\ pc[p] = "idle"
    /\ calls < MaxCalls
    /\ calls' = calls + 1
    /\ rls' = Looked(c)
    /\ \E ord \in Orderings(DOMAIN Looked(c)[GetRequestLogger(c).l].fields) :
         sink' = Append(sink,
                   [id |-> GetRequestLogger(c).l, l |-> 0, ctx |-> c,
                    level |-> Looked(c)[GetRequestLogger(c).l].level,
                    msg |-> Looked(c)[GetRequestLogger(c).l].message,
                    attrs |-> LogAttrs(Looked(c)[GetRequestLogger(c).l], ord),
                    at |-> calls + 1])
    /\ UNCHANGED <<shared, order, pc, cur, locals, nextId, lastRej, hist,
                   logLevel, ctxs, got, http, pooled>>

\* A program that uses the legacy API through contexts.
NextLegacy ==
    \E p \in CarrierProcs, c \in Contexts :
        \/ NewRequestContext(p, c)
        \/ GetRequestLoggerCall(p, c)
        \/ \E k \in Keys : AddRequestField(p, c, k)
        \/ \E ks \in ManyKeySets : AddRequestFields(p, c, ks)
        \/ \E err \in {NilErr, MkErr(calls + 1)} : AddRequestError(p, c, err)
        \/ LogRequest(p, c)

SpecLegacy == InitCarrier /\ [][NextLegacy]_vars

\* ------------------------------------------------------------------- C26
\* The RequestLogger that the nearest NewRequestContext call on the chain
\* of c created (0: c is unbound).
RequestBinders(c) == {a \in Chain(c) : ctxs[a].key = RequestLoggerKey}
RequestBound(c) ==
    IF RequestBinders(c) = {} THEN 0 ELSE ctxs[MaxOf(RequestBinders(c))].made

\* The keys of the attributes of a record.
AttrKeys(r) == {r.attrs[i].key : i \in DOMAIN r.attrs}

\* C26: GetRequestLogger never gives nil; on a bound context it gives the
\* bound RequestLogger; on an unbound context it gives one that did not
\* exist before, is empty and is attached to no context, and leaves the
\* existing ones as they were; a record that LogRequest emits for an
\* unbound context shows no field and no error.
C26_SilentFallback ==
    /\ [](/\ got.fn = "GetRequestLogger" =>
               /\ got.l # 0
               /\ RequestBound(got.ctx) # 0 => got.l = RequestBound(got.ctx)
          /\ \A r \in Records :
               IF RequestBound(r.ctx) = 0
                 THEN AttrKeys(r) = {"duration", "duration_ms"}
                 ELSE r.id = RequestBound(r.ctx))
    /\ [][\A p \in CarrierProcs, c \in Contexts :
            (GetRequestLoggerCall(p, c) /\ RequestBound(c) = 0) =>
                /\ got'.l \notin DOMAIN rls
                /\ got'.l \in DOMAIN rls'
                /\ rls'[got'.l] = NewRequestLogger
                /\ \A i \in DOMAIN rls : rls'[i] = rls[i]
                /\ ctxs' = ctxs]_vars

\* AddRequestField on the unbound Background stored into a RequestLogger
\* of its own, a lookup on Background then gave a second one, and
\* LogRequest on Background logged a third, empty one.
C26_Witness ==
    /\ Len(rls) = 3
    /\ rls[1].fields # EmptyMap
    /\ got.fn = "GetRequestLogger" /\ got.ctx = Background /\ got.l = 2
    /\ \E r \in Records : r.ctx = Background /\ r.id = 3

\* ------------------------------------------------------------------- C27
\* A step in which a Flush call begins.
FlushBegins == nextId' = nextId + 1 /\ hist'[nextId + 1].op = "Flush"

\* The deferred InfoAddMany of status and response_size was the call made
\* just before Flush call f and had returned when f began: accepted and
\* stored, or gated out.
ResponseAddBefore(f) ==
    \/ /\ (f - 1) \in DOMAIN http.payload
       /\ DOMAIN http.payload[f - 1] = ResponseKeys
       /\ (f - 1) \in hist[f].before
    \/ /\ lastRej.op = "InfoAddMany" /\ lastRej.at = f - 1
       /\ gateLevel[hist[f].l] > LevelInfo

\* C27: the handler runs with a context bound to a Logger that NewContext
\* created for this request and nothing has used; a Flush of it begins
\* only inside the handler, by the handler's own call, or at the deferred
\* Flush after the handler has ended and the deferred add has been made;
\* when the request is over, after a return or a panic of the handler,
\* that deferred Flush has run, on that Logger, and has returned.
C27_FlushOnceAfterHandler ==
    /\ [](/\ http.pc \in {"id", "add"} =>
               /\ Owner(http.ctx) # 0
               /\ Owner(http.ctx) = ctxs[http.ctx].made
               /\ fields[Owner(http.ctx)] = EmptyMap
               /\ errors[Owner(http.ctx)] = <<>>
               /\ hist = <<>>
          /\ http.pc \in {"start", "id", "add", "sethdr", "serve", "deferAdd",
                           "deferFlush"} => http.flushId = 0
          /\ http.pc = "done" =>
               /\ http.flushId \in DOMAIN hist
               /\ hist[http.flushId].op = "Flush"
               /\ hist[http.flushId].l = Owner(http.ctx)
               /\ hist[http.flushId].ret
               /\ ResponseAddBefore(http.flushId)
               /\ \E r \in Records : r.id = http.flushId)
    /\ [][FlushBegins =>
            \/ http.pc = "serve" /\ \E p \in CarrierProcs : HandlerFlush(p)
            \/ /\ http.pc = "deferFlush"
               /\ http'.pc = "flushing"
               /\ http'.flushId = nextId + 1]_vars

\* The handler flushed the Logger itself and then panicked; the request
\* is over and the middleware's Flush has emitted a second record holding
\* status and response_size.
C27_Witness ==
    /\ http.pc = "done" /\ http.panicked
    /\ Len(sink) = 2
    /\ \E r \in FinalRecords :
        ByMiddleware(r, "status") /\ ByMiddleware(r, "response_size")

\* ------------------------------------------------------------------- C28
\* The header the underlying ResponseWriter should have received after
\* the handler's calls log: the code of a leading WriteHeader, or 200 for
\* a leading Write; and the bytes its Write calls reported.
FirstHeader(log) ==
    IF log = <<>> THEN <<>>
    ELSE IF log[1].op = "WriteHeader" THEN <<log[1].arg>>
    ELSE <<StatusOK>>

RECURSIVE Written(_)
Written(log) ==
    IF log = <<>> THEN 0
    ELSE (IF log[1].op = "Write" THEN log[1].arg ELSE 0) + Written(Tail(log))

\* C28: the recorded status is 200 until the handler's first call on the
\* writer, then the code of that call when it is a WriteHeader and 200
\* when it is a Write, for good; only that first header reaches the
\* underlying ResponseWriter; bytesWritten is the sum of the byte counts
\* the underlying Write calls returned.
C28_FirstHeaderWins ==
    Serving =>
        /\ http.under.codes = FirstHeader(http.wlog)
        /\ http.ww.status =
              (IF http.wlog = <<>> THEN StatusOK ELSE FirstHeader(http.wlog)[1])
        /\ http.ww.wroteHeader <=> http.wlog # <<>>
        /\ http.ww.bytesWritten = Written(http.wlog)
        /\ http.under.bytes = Written(http.wlog)

\* The handler called Write and then WriteHeader(404): the recorded status
\* is 200, the underlying writer received 200 only, two bytes are counted.
C28_Witness ==
    /\ http.wlog = <<[op |-> "Write", arg |-> 2], [op |-> "WriteHeader", arg |-> 404]>>
    /\ http.ww.status = StatusOK
    /\ http.under.codes = <<StatusOK>>
    /\ http.ww.bytesWritten = 2

\* ------------------------------------------------------------------- C29
\* Goroutine p is at the statement that evaluates err.Error(), code the
\* caller supplied.
RunsCallerCode(p) == pc[p] = "append"

\* Goroutine p is about to hand its record to the sink.
RunsSinkCall(p) == pc[p] = "emit"

\* C29: no goroutine runs the sink call or caller-supplied code while it
\* holds the lock of the Logger it works on.
C29_OnlyBoundedStepsUnderLock ==
    \A p \in Procs :
        (RunsCallerCode(p) \/ RunsSinkCall(p)) => mu[cur[p].l] # p

\* ------------------------------------------------------------------- C30
WarnOps == {"WarnAdd", "WarnAddMany"}

\* C30: a record that shows a value stored by WarnAdd or WarnAddMany has
\* level at least Warn, and a record with a non-empty errors array has
\* level at least Error, under every interleaving.
C30_EscalationAtomicWithStorage ==
    \A r \in Records :
        /\ (\E v \in FieldVals(r) : hist[v].op \in WarnOps) => r.level >= LevelWarn
        /\ ErrorsOf(r) # <<>> => r.level >= LevelError

\* A Flush that overlapped in time with a WarnAddMany emitted a record
\* holding that batch, on a Logger whose gate is below Warn.
C30_Witness ==
    \E r \in Records :
        /\ gateLevel[r.l] < LevelWarn
        /\ \E v \in FieldVals(r) :
              hist[v].op = "WarnAddMany" /\ Overlap(v, r.id)

\* ------------------------------------------------------------------- C31
\* The keys of record r whose value was stored by call c.
ShownKeys(c, r) == {k \in hist[c].keys : HasKey(r, k) /\ ValOf(r, k) = c}

\* C31: every key of an accepted DebugAddMany / InfoAddMany / WarnAddMany
\* call is in the record of the Flush whose cycle the call belongs to,
\* with the call's value or the value of an add of that cycle that took
\* the lock later; no other record shows any value of the call.
C31_BatchAtomicWithFlush ==
    \A c \in DOMAIN hist : hist[c].op \in ManyOps =>
        \A r \in Records :
            IF c \in CycleOf(r.id)
              THEN \A k \in hist[c].keys :
                      /\ HasKey(r, k)
                      /\ \/ ValOf(r, k) = c
                         \/ /\ ValOf(r, k) \in CycleOf(r.id)
                            /\ Pos(ValOf(r, k)) > Pos(c)
              ELSE ShownKeys(c, r) = {}

\* An InfoAddMany of two keys overlapped in time with a Flush, and the
\* record of that Flush holds both keys of the batch.
C31_Witness ==
    \E r \in Records : \E c \in CycleOf(r.id) :
        /\ hist[c].op = "InfoAddMany"
        /\ Overlap(c, r.id)
        /\ Cardinality(hist[c].keys) = 2
        /\ ShownKeys(c, r) = hist[c].keys

\* ------------------------------------------------------------------- C32
\* C32: a call of SetupGlobalLogger leaves gate, output level and contents
\* of every existing Logger as they are, and with them the adds each one
\* accepts; an add is accepted by the gate of its Logger whatever the
\* process-wide level is at the call, and the reset of a Flush sets the
\* output level to that gate; a Logger made by New() afterwards takes the
\* process-wide level current at its creation.
C32_GateFixedAtConstruction ==
    [][/\ \A p \in CarrierProcs, str \in LevelStrs :
            SetupGlobalLogger(p, str) =>
                /\ DOMAIN gateLevel' = Allocated
                /\ \A l \in Allocated :
                      /\ LoggerState(l)' = LoggerState(l)
                      /\ \A op \in FieldOps \cup {"ErrorAdd"} :
                            AddAccepted(l, op)' <=> AddAccepted(l, op)
       /\ \A l \in Allocated : gateLevel'[l] = gateLevel[l]
       /\ \A p \in CarrierProcs, l \in Allocated :
            /\ \A op \in SingleOps, k \in Keys :
                  CallAdd(p, l, op, k) =>
                      (pc'[p] = "lock" <=> gateLevel[l] <= GateOf(op))
            /\ ResetStep(p, l) => level'[l] = gateLevel[l]
       /\ \A p \in CarrierProcs :
            NewLogger(p, <<>>) =>
                \A n \in {Cardinality(Allocated) + 1} :
                    gateLevel'[n] = logLevel /\ level'[n] = logLevel]_vars

\* The process-wide level is Debug, and a Logger whose gate is Info has
\* rejected a DebugAdd.
C32_Witness ==
    /\ logLevel = LevelDebug
    /\ \E l \in Allocated : gateLevel[l] = LevelInfo /\ level[l] = LevelInfo
    /\ lastRej.op = "DebugAdd"

\* ------------------------------------------------------------------- C33
\* The positions of the sink at which the record of Flush call c stands.
RecordsOf(c) == {i \in DOMAIN sink : sink[i].id = c}

AnyKeys == {"a", "errors"}

\* Goroutines that call one Logger with keys and error values of the
\* caller's choosing.
NextInputs ==
    \E p \in Procs :
        \/ \E l \in Loggers, op \in SingleOps, k \in AnyKeys : CallAdd(p, l, op, k)
        \/ \E l \in Loggers, err \in {MkErr(nextId + 1), ReentrantErr(nextId + 1)} :
               CallErrorAdd(p, l, err)
        \/ \E l \in Loggers : CallFlush(p, l)
        \/ Lock(p)
        \/ Store(p)
        \/ AppendError(p)
        \/ \E k \in AnyKeys : ErrorMethodCalls(p, k)
        \/ Escalate(p)
        \/ Snapshot(p)
        \/ Reset(p)
        \/ Build(p)
        \/ Emit(p)

SpecInputs == Init /\ [][NextInputs]_vars

\* C34: the attribute keys of every emitted record are pairwise distinct.
C34_AttrKeysDistinct ==
    \A r \in Records :
        \A i, j \in DOMAIN r.attrs :
            i # j => r.attrs[i].key # r.attrs[j].key

Step(p) ==
    \/ Lock(p)
    \/ Store(p)
    \/ AppendError(p)
    \/ Escalate(p)
    \/ Snapshot(p)
    \/ Reset(p)
    \/ Build(p)
    \/ Emit(p)

\* Fair scheduling and a sink that returns: a goroutine whose next statement
\* can run does run it; one that waits at l.mu.Lock() goes on once the
\* mutex stays free.
Fairness == \A p \in Procs : WF_vars(Step(p))

SpecFair == Spec /\ Fairness
SpecInputsFair == SpecInputs /\ Fairness

\* A call is in progress on Logger l.
InProgress(l) == \E p \in Procs : pc[p] # "idle" /\ cur[p].l = l

\* C36: every call a goroutine is in eventually returns, and the mutex of
\* a Logger on which no call is in progress is unlocked.
C36_DeadlockFree ==
    /\ \A p \in Procs : (pc[p] # "idle") ~> (pc[p] = "idle")
    /\ [](\A l \in Loggers : ~InProgress(l) => mu[l] = 0)

\* ------------------------------------------------------------------- C37
\* The capacity of the slice attrPool.New makes.
NewCap == 32

\* attrPool.New(): a pointer to an empty slice of capacity 32.
NewBuffer == [items |-> <<>>, cap |-> NewCap]

\* A buffer the Flush of another Logger put back: the slice it points to
\* still holds the attribute of that Logger's record.
StaleBuffer == [items |-> <<[key |-> "stale", val |-> 0]>>, cap |-> NewCap]

\* The states attrPool can be in when the Logger is made.
StartPools == {NoBuffers, [made |-> <<StaleBuffer>>, free |-> {1}]}

\* neededCap := len(fieldsCopy), plus one when there are errors.
NeededCap(fc, ec) == Cardinality(DOMAIN fc) + (IF Len(ec) > 0 THEN 1 ELSE 0)

\* A variant of Reslice that forgets the [:0].
ResliceKeeps(sl, neededCap) == sl

\* if cap(attrs) < neededCap { attrs = make([]slog.Attr, 0, neededCap) }
\* else { attrs = attrs[:0] }
Reslice(sl, neededCap) ==
    IF sl.cap < neededCap
      THEN [items |-> <<>>, cap |-> neededCap]
      ELSE [items |-> SubSeq(sl.items, 1, 0), cap |-> sl.cap]

\* The capacity of a slice of capacity c after appends made its length n.
CapAfter(c, n) == IF c < n THEN n ELSE c

\* attrsPtr := attrPool.Get().(*[]slog.Attr): a buffer of the pool, or a
\* new one from New (the pool is empty, or sync.Pool gives none of its
\* buffers to this goroutine).
GetBuffer(p) ==
    /\ pc[p] = "build"
    /\ \/ \E b \in attrPool.free :
             /\ attrPool' = [attrPool EXCEPT !.free = @ \ {b}]
             /\ attrsPtr' = [attrsPtr EXCEPT ![p] = b]
       \/ /\ attrPool' = [attrPool EXCEPT !.made = Append(@, NewBuffer)]
          /\ attrsPtr' = [attrsPtr EXCEPT ![p] = Len(attrPool.made) + 1]
    /\ pc' = [pc EXCEPT ![p] = "fill"]
    /\ UNCHANGED <<shared, cur, locals, sink, ghost, logLevel, ctxs, got, web>>

\* attrs := *attrsPtr, resliced, then one append per copied field and one
\* for the errors.
FillBuffer(p) ==
    /\ pc[p] = "fill"
    /\ \E ord \in Orderings(DOMAIN fieldsCopy[p]) :
         attrs' = [attrs EXCEPT ![p] =
                     Reslice(attrPool.made[attrsPtr[p]],
                             NeededCap(fieldsCopy[p], errorsCopy[p])).items
                       \o BuildAttrs(fieldsCopy[p], errorsCopy[p], ord)]
    /\ pc' = [pc EXCEPT ![p] = "emit"]
    /\ UNCHANGED <<shared, cur, todo, outputLevel, fieldsCopy, errorsCopy,
                   sink, ghost, carrier>>

\* slog.LogAttrs(ctx, outputLevel, "", attrs...); *attrsPtr = attrs;
\* attrPool.Put(attrsPtr); return.
EmitPooled(p) ==
    /\ pc[p] = "emit"
    /\ sink' = Append(sink, [id |-> cur[p].id, l |-> cur[p].l,
                             level |-> outputLevel[p], msg |-> "",
                             attrs |-> attrs[p], at |-> nextId])
    /\ attrPool' = [made |-> [attrPool.made EXCEPT ![attrsPtr[p]] =
                                [items |-> attrs[p],
                                 cap |-> CapAfter(@.cap, Len(attrs[p]))]],
                    free |-> attrPool.free \cup {attrsPtr[p]}]
    /\ attrsPtr' = [attrsPtr EXCEPT ![p] = 0]
    /\ Return(p)
    /\ todo' = [todo EXCEPT ![p] = {}]
    /\ outputLevel' = [outputLevel EXCEPT ![p] = 0]
    /\ fieldsCopy' = [fieldsCopy EXCEPT ![p] = EmptyMap]
    /\ errorsCopy' = [errorsCopy EXCEPT ![p] = <<>>]
    /\ attrs' = [attrs EXCEPT ![p] = <<>>]
    /\ UNCHANGED <<shared, calls, nextId, lastRej, order, logLevel, ctxs,
                   got, web>>

\* One Logger in a process whose attrPool is empty or holds a buffer that
\* another Logger's Flush left.
InitPool ==
    /\ \E g \in GateLevels :
         /\ gateLevel = [l \in Loggers |-> WithLevel(g).gateLevel]
         /\ level = [l \in Loggers |-> WithLevel(g).level]
    /\ fields = [l \in Loggers |-> EmptyMap]
    /\ errors = [l \in Loggers |-> <<>>]
    /\ mu = [l \in Loggers |-> 0]
    /\ pc = [p \in Procs |-> "idle"]
    /\ cur = [p \in Procs |-> NoCall]
    /\ todo = [p \in Procs |-> {}]
    /\ outputLevel = [p \in Procs |-> 0]
    /\ fieldsCopy = [p \in Procs |-> EmptyMap]
    /\ errorsCopy = [p \in Procs |-> <<>>]
    /\ attrs = [p \in Procs |-> <<>>]
    /\ attrPool \in StartPools
    /\ attrsPtr = [p \in Procs |-> 0]
    /\ sink = <<>>
    /\ calls = 0
    /\ nextId = 0
    /\ lastRej = NoRej
    /\ hist = <<>>
    /\ order = [l \in Loggers |-> <<>>]
    /\ logLevel = LevelInfo
    /\ ctxs = <<>>
    /\ got = NoLookup
    /\ rls = <<>>
    /\ http = NoHttp

\* The Logger's methods with Flush taking its attribute slice from attrPool.
NextPool ==
    \E p \in Procs :
        \/ \E l \in Loggers, op \in SingleOps, k \in Keys : CallAdd(p, l, op, k)
        \/ \E l \in Loggers : CallErrorAdd(p, l, MkErr(nextId + 1))
        \/ \E l \in Loggers : CallFlush(p, l)
        \/ Lock(p)
        \/ Store(p)
        \/ AppendError(p)
        \/ Escalate(p)
        \/ Snapshot(p)
        \/ Reset(p)
        \/ GetBuffer(p)
        \/ FillBuffer(p)
        \/ EmitPooled(p)

SpecPool == InitPool /\ [][NextPool]_vars

\* Two attribute lists are the same list.
SameAttrs(x, y) ==
    /\ Len(x) = Len(y)
    /\ \A i \in DOMAIN x : x[i].key = y[i].key /\ x[i].val = y[i].val

\* The goroutines that hold a buffer of attrPool.
Borrowers == {p \in Procs : attrsPtr[p] # 0}

\* C37: a buffer is held by at most one Flush at a time and is not in the
\* pool while it is held; the attribute list a Flush hands to the sink is
\* one that Build makes from the copies alone, with a fresh slice; a Flush
\* holds a buffer only between Get and the sink call, and the step that
\* returns from Flush puts the buffer back into the pool.
C37_PooledBufferInert ==
    /\ [](/\ \A p, q \in Borrowers : p # q => attrsPtr[p] # attrsPtr[q]
          /\ \A p \in Borrowers :
                /\ attrsPtr[p] \notin attrPool.free
                /\ pc[p] \in {"fill", "emit"}
          /\ \A p \in Procs :
                pc[p] = "emit" =>
                    \E ord \in Orderings(DOMAIN fieldsCopy[p]) :
                        SameAttrs(attrs[p],
                                  BuildAttrs(fieldsCopy[p], errorsCopy[p], ord)))
    /\ [][\A p \in Procs :
            (pc[p] = "emit" /\ pc'[p] = "idle") =>
                /\ attrsPtr[p] \in attrPool'.free
                /\ attrsPtr'[p] = 0
                /\ SameAttrs(sink'[Len(sink')].attrs, attrs[p])]_vars

\* A Flush holds a buffer that still carries the attribute another Flush
\* left in it, and is about to hand over a non-empty attribute list in
\* which that attribute does not appear.
C37_Witness ==
    \E p \in Borrowers :
        /\ pc[p] = "emit"
        /\ attrPool.made[attrsPtr[p]].items # <<>>
        /\ attrs[p] # <<>>
        /\ \A i \in DOMAIN attrs[p] :
              \A j \in DOMAIN attrPool.made[attrsPtr[p]].items :
                  attrs[p][i].key # attrPool.made[attrsPtr[p]].items[j].key

====
